---- MODULE Spec2Model ----
(***************************************************************************)
(* Tick-based battle resolver (src/src/resolver/logic.ts) and the resolver *)
(* worker that runs it (src/src/resolver/worker.ts), as a state machine.   *)
(* One run of resolveBattle is unfolded into steps: validation and spawn,  *)
(* one step per projectile impact, one step per acting unit, and the       *)
(* end-of-tick termination check together with the next loop header.       *)
(***************************************************************************)
EXTENDS Integers, Naturals, Sequences, FiniteSets, TLC

VARIABLES
    input,             \* the BattleInput handed to the worker (event.data)
    pc,                \* position of the handler: idle, impact, action, check, returned, threw
    run,               \* number of messages the worker has answered
    posted,            \* replies posted by the worker, in order
    rng,               \* createRng's closure variable `state`, as <<high 16 bits, low 16 bits>>
    events,            \* resolveBattle's local `events`
    units,             \* resolveBattle's local `units` (Map id -> UnitState)
    tileIndex,         \* resolveBattle's local `tileIndex` (tile -> ids in insertion order)
    projectiles,       \* every projectile scheduled so far (projectilesByTick, flattened in push order)
    projectileId,      \* next projectile id
    lastActivityTick,
    loopGuard,
    tick,
    activityThisTick,
    impacts,           \* the sorted `impacts` of this tick still to be processed
    cursor,            \* index into unitOrder of the next unit the action loop looks at
    rngDraws,          \* ghost: number of calls of rng.next() in this run
    result,            \* the BattleResult returned, NoResult before
    error,             \* message of the Error thrown, "" when none
    history,           \* ghost: the unit map at the end of every tick of this run
    engine,            \* the page's ReplayEngine, NoEngine before it is made
    clients,           \* the relay's `clients`: the responses of the open event streams
    backlog,           \* the relay's `backlog`
    streams,           \* what the relay has written to each response, in order
    heartbeats,        \* the responses whose heartbeat interval is set
    lastReply,         \* the relay's latest JSON reply, NoReply before
    relayLog,          \* ghost: every command the relay has accepted, in order
    joinedAt,          \* ghost: per response, the number of commands accepted before its GET
    leftAt,            \* ghost: per response, that number when it left `clients`, -1 before
    relayPosts,        \* ghost: the POST requests handled since the initial state
    mode,              \* the page's `mode`: setup, resolving or replay
    setupUnits,        \* the page's `setupUnits`
    nextUnitId,        \* the page's `nextUnitId`
    selectedSide,      \* the page's `selectedSide`
    selectedType,      \* the page's `selectedType`
    agentResult,       \* what window.battlePrototype.placeUnit returned last, NoPlacement before
    pageInput          \* the input the page posted to its worker, output.input in replay mode

vars == <<input, pc, run, posted, rng, events, units, tileIndex, projectiles,
          projectileId, lastActivityTick, loopGuard, tick, activityThisTick,
          impacts, cursor, rngDraws, result, error, history, engine,
          clients, backlog, streams, heartbeats, lastReply, relayLog, joinedAt, leftAt,
          relayPosts,
          mode, setupUnits, nextUnitId, selectedSide, selectedType, agentResult, pageInput>>

setupVars == <<mode, setupUnits, nextUnitId, selectedSide, selectedType, agentResult,
               pageInput>>

relayVars == <<clients, backlog, streams, heartbeats, lastReply, relayLog, joinedAt, leftAt,
               relayPosts>>

resolverVars == <<input, pc, run, posted, rng, events, units, tileIndex, projectiles,
                  projectileId, lastActivityTick, loopGuard, tick, activityThisTick,
                  impacts, cursor, rngDraws, result, error, history, engine>>

-----------------------------------------------------------------------------
(* src/src/schema/constants.ts *)

Sides == {"Red", "Blue"}
UnitTypes == {"Infantry", "Archer", "Cavalry", "Mage"}

UNIT_SIZES == [Infantry |-> 2, Archer |-> 2, Cavalry |-> 3, Mage |-> 2]

\* the costs with ranged attacks that take one tick
UNIT_COSTS_RapidFire ==
    [Infantry |-> [move |-> 6, attack |-> 12, wait |-> 1],
     Archer   |-> [move |-> 6, attack |-> 1, wait |-> 1],
     Cavalry  |-> [move |-> 4, attack |-> 12, wait |-> 1],
     Mage     |-> [move |-> 6, attack |-> 1, wait |-> 1]]

\* the costs with a wait that takes no time
UNIT_COSTS_FreeWait ==
    [Infantry |-> [move |-> 6, attack |-> 12, wait |-> 0],
     Archer   |-> [move |-> 6, attack |-> 14, wait |-> 0],
     Cavalry  |-> [move |-> 4, attack |-> 12, wait |-> 0],
     Mage     |-> [move |-> 6, attack |-> 16, wait |-> 0]]

UNIT_COSTS ==
    [Infantry |-> [move |-> 6, attack |-> 12, wait |-> 1],
     Archer   |-> [move |-> 6, attack |-> 14, wait |-> 1],
     Cavalry  |-> [move |-> 4, attack |-> 12, wait |-> 1],
     Mage     |-> [move |-> 6, attack |-> 16, wait |-> 1]]

UNIT_RANGES == [Infantry |-> 1, Archer |-> 5, Cavalry |-> 1, Mage |-> 6]

\* the two speeds exchanged
PROJECTILE_SPEED_Exchanged == [Arrow |-> 3, Fireball |-> 2]

PROJECTILE_SPEED == [Arrow |-> 2, Fireball |-> 3]

DEPLOYMENT_COLUMNS == [Red |-> [start |-> 0, end |-> 2], Blue |-> [start |-> 9, end |-> 11]]

MIN_RANGED_DISTANCE == 1

STALL_TICKS == 200

MAX_LOOP_GUARD == 5000

-----------------------------------------------------------------------------
(* Small helpers *)

\* A coordinate is a JavaScript number.  The model counts coordinates and
\* distances in halves of a tile, so that the numbers 1 and 1.5 are the
\* integers 2 and 3; Tile is the number 1.
Tile == 2

Pos(x, y) == [x |-> x, y |-> y]

\* `null` where the code has a Position | null
NoPos == [x |-> -9, y |-> -9]

NoResult == [winner |-> "none", reason |-> "none", tick |-> -9,
             survivors |-> [Red |-> 0, Blue |-> 0]]

Abs(n) == IF n < 0 THEN -n ELSE n

Range(s) == {s[i] : i \in DOMAIN s}

\* lexicographic "less than" on integer tuples of equal length
LexLess(a, b) ==
    \E i \in DOMAIN a :
        /\ a[i] < b[i]
        /\ \A j \in DOMAIN a : j < i => a[j] = b[j]

\* Array.prototype.sort with a comparator that orders by the integer tuple
\* keys[i] of element s[i]; the sort is stable (ECMAScript 2019).
StableSort(s, keys) ==
    LET n == Len(s)
        before(j, i) == LexLess(keys[j], keys[i]) \/ (keys[j] = keys[i] /\ j < i)
        rank(i) == Cardinality({j \in 1..n : before(j, i)}) + 1
    IN  [p \in 1..n |-> s[CHOOSE i \in 1..n : rank(i) = p]]

\* Array.prototype.filter
RECURSIVE FilterSeq(_, _)
FilterSeq(s, keep) ==
    IF s = <<>> THEN <<>>
    ELSE IF Head(s) \in keep THEN <<Head(s)>> \o FilterSeq(Tail(s), keep)
         ELSE FilterSeq(Tail(s), keep)

RECURSIVE SumSeq(_)
SumSeq(s) == IF s = <<>> THEN 0 ELSE Head(s) + SumSeq(Tail(s))

-----------------------------------------------------------------------------
(* createRng: state = (state * 1664525 + 1013904223) >>> 0, kept as two    *)
(* 16-bit limbs so that no intermediate value leaves the 32-bit integers   *)
(* of the model checker.  1664525 = 25 * 2^16 + 26125,                     *)
(* 1013904223 = 15470 * 2^16 + 62303.                                      *)

Limb == 256 * 256

createRng(seed) == <<(seed \div Limb) % Limb, seed % Limb>>

rngStep(state) ==
    LET t0 == state[2] * 26125 + 62303
        t1 == state[1] * 26125 + state[2] * 25 + (t0 \div Limb) + 15470
    IN  <<t1 % Limb, t0 % Limb>>

\* a hit on the draws of the upper half
aboveHalf(state) == state[1] >= 32768

\* rng.next() < 0.5 on the state after the step: state / 2^32 < 1/2
belowHalf(state) == state[1] < 32768

\* Math.floor(next() * max) on the state after the step
nextInt(state, max) == (state[1] * max + ((state[2] * max) \div Limb)) \div Limb

-----------------------------------------------------------------------------
(* Pure helpers of logic.ts *)

\* the template string `${pos.x},${pos.y}`: one key per pair of integers
tileKey(pos) == <<pos.x, pos.y>>

manhattan(a, b) == Abs(a.x - b.x) + Abs(a.y - b.y)

isWithin(pos, in) ==
    /\ pos.x >= 0 /\ pos.x < in.grid.width * Tile
    /\ pos.y >= 0 /\ pos.y < in.grid.height * Tile

\* the value of a property no object has: `undefined`, and the NaN a sum with
\* it gives
Undefined == -1

\* UNIT_SIZES[type], for whatever value the type field holds
unitSize(type) == IF type \in DOMAIN UNIT_SIZES THEN UNIT_SIZES[type] ELSE Undefined

\* a + b and a > b for numbers that may be undefined or NaN
plus(a, b) == IF a = Undefined \/ b = Undefined THEN Undefined ELSE a + b

exceeds(a, b) == a # Undefined /\ b # Undefined /\ a > b

\* validateInput from unit i on; `ids` and `tileCounts` are its two locals.
\* The value is the message of the Error thrown, "" when it returns.
RECURSIVE validateFrom(_, _, _, _)
validateFrom(in, i, ids, tileCounts) ==
    IF i > Len(in.units) THEN ""
    ELSE
      LET unit == in.units[i]
          zone == DEPLOYMENT_COLUMNS[unit.side]
          key  == tileKey(unit.position)
      IN
      IF unit.id \in ids THEN "Duplicate unit id"
      ELSE IF unitSize(unit.type) # unit.size THEN "Unit has unexpected size"
      ELSE IF ~isWithin(unit.position, in) THEN "Unit placed outside the grid"
      ELSE IF unit.position.x < zone.start * Tile \/ unit.position.x > zone.end * Tile
           THEN "Unit placed outside deployment zone"
      ELSE IF key \notin DOMAIN tileCounts
           THEN validateFrom(in, i + 1, ids \cup {unit.id},
                    (key :> [side |-> unit.side, count |-> 1, size |-> unit.size]) @@ tileCounts)
      ELSE
        LET current == tileCounts[key]
            bumped  == [current EXCEPT !.count = @ + 1, !.size = plus(@, unit.size)]
        IN
        IF current.side # unit.side THEN "Tile mixes sides"
        ELSE IF bumped.count > in.limits.maxUnitsPerTile THEN "Tile exceeds max units"
        ELSE IF exceeds(bumped.size, in.limits.maxSizePerTile) THEN "Tile exceeds max size"
        ELSE validateFrom(in, i + 1, ids \cup {unit.id}, [tileCounts EXCEPT ![key] = bumped])

validateInput(in) == validateFrom(in, 1, {}, <<>>)

\* ids of a Map<number, UnitState> in iteration order; the map is filled in
\* ascending id order, so that is its iteration order
RECURSIVE AscendingSeq(_)
AscendingSeq(S) ==
    IF S = {} THEN <<>>
    ELSE LET m == CHOOSE a \in S : \A b \in S : a <= b
         IN  <<m>> \o AscendingSeq(S \ {m})

mapOrder(us) == AscendingSeq(DOMAIN us)

\* the units of the other side, dead ones included
getEnemyUnitsWithDead(us, side) ==
    FilterSeq(mapOrder(us), {id \in DOMAIN us : us[id].side # side})

getEnemyUnits(us, side) ==
    FilterSeq(mapOrder(us), {id \in DOMAIN us : us[id].alive /\ us[id].side # side})

getFriendlyUnits(us, side) ==
    FilterSeq(mapOrder(us), {id \in DOMAIN us : us[id].alive /\ us[id].side = side})

\* the adjacent enemy of the highest id
findAdjacentEnemyHighest(unit, us) ==
    LET near == FilterSeq(getEnemyUnits(us, unit.side),
                    {id \in DOMAIN us : manhattan(unit.position, us[id].position) = 1 * Tile})
    IN  IF near = <<>> THEN <<>> ELSE <<near[Len(near)]>>

\* `enemies[0] ?? null`: <<id>> of the enemy to attack, <<>> for null
findAdjacentEnemy(unit, us) ==
    LET near    == FilterSeq(getEnemyUnits(us, unit.side),
                       {id \in DOMAIN us : manhattan(unit.position, us[id].position) = 1 * Tile})
        enemies == StableSort(near, [i \in DOMAIN near |-> <<near[i]>>])
    IN  IF enemies = <<>> THEN <<>> ELSE <<enemies[1]>>

\* the values of the Map `enemyTiles`, in insertion order
RECURSIVE enemyTilesFrom(_, _, _, _, _)
enemyTilesFrom(unit, us, range, enemies, tiles) ==
    IF enemies = <<>> THEN tiles
    ELSE
      LET enemy    == us[Head(enemies)]
          distance == manhattan(unit.position, enemy.position)
          at       == {i \in DOMAIN tiles : tiles[i].position = enemy.position}
      IN
      IF distance < MIN_RANGED_DISTANCE * Tile \/ distance > range * Tile
        THEN enemyTilesFrom(unit, us, range, Tail(enemies), tiles)
      ELSE IF at = {}
        THEN enemyTilesFrom(unit, us, range, Tail(enemies),
                 Append(tiles, [position |-> enemy.position, count |-> 1]))
      ELSE LET i == CHOOSE k \in at : TRUE
           IN  enemyTilesFrom(unit, us, range, Tail(enemies),
                   [tiles EXCEPT ![i].count = @ + 1])

getEnemyTilesInRange(unit, us, range) ==
    enemyTilesFrom(unit, us, range, getEnemyUnits(us, unit.side), <<>>)

\* tileIndex is a Map: a sequence of entries [key, ids] in insertion order
tileHas(ti, key) == \E i \in DOMAIN ti : ti[i].key = key

tileGet(ti, key) == ti[CHOOSE i \in DOMAIN ti : ti[i].key = key].ids

tileSet(ti, key, ids) ==
    IF tileHas(ti, key)
      THEN [i \in DOMAIN ti |-> IF ti[i].key = key THEN [key |-> key, ids |-> ids] ELSE ti[i]]
      ELSE Append(ti, [key |-> key, ids |-> ids])

\* the first id of the tile alone
getTileUnitsFirst(ti, us, pos) ==
    IF tileHas(ti, tileKey(pos)) /\ tileGet(ti, tileKey(pos)) # <<>>
      THEN <<tileGet(ti, tileKey(pos))[1]>> ELSE <<>>

\* ids on the tile in index order (every id of the index is in the unit map)
getTileUnits(ti, us, pos) ==
    IF tileHas(ti, tileKey(pos)) THEN tileGet(ti, tileKey(pos)) ELSE <<>>

livingOn(ti, us, pos) ==
    FilterSeq(getTileUnits(ti, us, pos), {id \in DOMAIN us : us[id].alive})

\* entry that looks at the number of units and not at their sizes
canEnterTileUnsized(unit, ti, us, pos, in) ==
    /\ isWithin(pos, in)
    /\ \/ livingOn(ti, us, pos) = <<>>
       \/ /\ \A i \in DOMAIN livingOn(ti, us, pos) :
                us[livingOn(ti, us, pos)[i]].side = unit.side
          /\ Len(livingOn(ti, us, pos)) + 1 <= in.limits.maxUnitsPerTile

\* entry that looks at the sides and not at the limits of the tile
canEnterTileCrowded(unit, ti, us, pos, in) ==
    /\ isWithin(pos, in)
    /\ \A i \in DOMAIN livingOn(ti, us, pos) : us[livingOn(ti, us, pos)[i]].side = unit.side

canEnterTile(unit, ti, us, pos, in) ==
    IF ~isWithin(pos, in) THEN FALSE
    ELSE
      LET existing  == livingOn(ti, us, pos)
          totalSize == SumSeq([i \in DOMAIN existing |-> us[existing[i]].size]) + unit.size
      IN
      IF existing = <<>> THEN TRUE
      ELSE IF \E i \in DOMAIN existing : us[existing[i]].side # unit.side THEN FALSE
      ELSE /\ Len(existing) + 1 <= in.limits.maxUnitsPerTile
           /\ totalSize <= in.limits.maxSizePerTile

\* the four neighbours in the order the code lists them: +x, -x, +y, -y
\* the four neighbours with the rows first: +y, -y, +x, -x
neighborsRowsFirst(pos) ==
    << Pos(pos.x, pos.y + 1 * Tile), Pos(pos.x, pos.y - 1 * Tile),
       Pos(pos.x + 1 * Tile, pos.y), Pos(pos.x - 1 * Tile, pos.y) >>

neighbors(pos) ==
    << Pos(pos.x + 1 * Tile, pos.y), Pos(pos.x - 1 * Tile, pos.y),
       Pos(pos.x, pos.y + 1 * Tile), Pos(pos.x, pos.y - 1 * Tile) >>

\* the while loop of findMoveStep; the value is the step, NoPos for null
RECURSIVE bfs(_, _, _, _, _, _, _, _)
bfs(unit, ti, us, in, startKey, targetKeys, queue, visited) ==
    IF queue = <<>> THEN NoPos
    ELSE
      LET current == Head(queue)
          key     == tileKey(current.pos)
          nbs     == neighbors(current.pos)
          \* visited set and queue after looking at the first k neighbours
          scan[k \in 0..4] ==
              IF k = 0 THEN [visited |-> visited, queue |-> Tail(queue)]
              ELSE LET prev == scan[k - 1]
                       nb   == nbs[k]
                   IN  IF tileKey(nb) \in prev.visited THEN prev
                       ELSE IF ~canEnterTile(unit, ti, us, nb, in) THEN prev
                       ELSE [visited |-> prev.visited \cup {tileKey(nb)},
                             queue   |-> Append(prev.queue,
                                 [pos |-> nb,
                                  firstStep |-> IF current.firstStep = NoPos THEN nb
                                                ELSE current.firstStep])]
      IN
      IF key # startKey /\ key \in targetKeys THEN current.firstStep
      ELSE bfs(unit, ti, us, in, startKey, targetKeys, scan[4].queue, scan[4].visited)

findMoveStep(unit, ti, us, in) ==
    LET enemyUnits == getEnemyUnits(us, unit.side)
        targetKeys ==
            {tileKey(nb) : nb \in
                {n \in UNION {Range(neighbors(us[enemyUnits[i]].position)) : i \in DOMAIN enemyUnits} :
                    canEnterTile(unit, ti, us, n, in)}}
        startKey == tileKey(unit.position)
    IN
    IF enemyUnits = <<>> THEN NoPos
    ELSE IF targetKeys = {} THEN NoPos
    ELSE bfs(unit, ti, us, in, startKey, targetKeys,
             <<[pos |-> unit.position, firstStep |-> NoPos]>>, {startKey})

\* comparator key of sortTilesDeterministic: row, then column
sortTilesDeterministic(tile) == <<tile.position.y, tile.position.x>>

\* a removal that revokes the tile membership and forgets the alive flag
applyRemovalKeepsAlive(id, ti, us) ==
    LET key == tileKey(us[id].position)
    IN  [units |-> us,
         tileIndex |-> IF ~tileHas(ti, key) THEN ti
                       ELSE tileSet(ti, key, FilterSeq(tileGet(ti, key), DOMAIN us \ {id}))]

\* a removal that takes every unit of the tile with it
applyRemovalOfTile(id, ti, us) ==
    LET key == tileKey(us[id].position)
    IN  [units |-> [u \in DOMAIN us |->
                       IF us[u].position = us[id].position THEN [us[u] EXCEPT !.alive = FALSE]
                       ELSE us[u]],
         tileIndex |-> IF ~tileHas(ti, key) THEN ti ELSE tileSet(ti, key, <<>>)]

\* applyRemoval: the pair of the unit map and the tile index afterwards
applyRemoval(id, ti, us) ==
    LET key == tileKey(us[id].position)
    IN  [units |-> [us EXCEPT ![id].alive = FALSE],
         tileIndex |-> IF ~tileHas(ti, key) THEN ti
                       ELSE tileSet(ti, key, FilterSeq(tileGet(ti, key), DOMAIN us \ {id}))]

\* checkTileConstraints: the message of the Error thrown by the first entry
\* (in Map order) that breaks a constraint, "" when it returns
RECURSIVE checkTilesFrom(_, _, _, _)
checkTilesFrom(ti, us, in, i) ==
    IF i > Len(ti) THEN ""
    ELSE
      LET living    == FilterSeq(ti[i].ids, {id \in DOMAIN us : us[id].alive})
          totalSize == SumSeq([k \in DOMAIN living |-> us[living[k]].size])
      IN
      IF living = <<>> THEN checkTilesFrom(ti, us, in, i + 1)
      ELSE IF \E k \in DOMAIN living : us[living[k]].side # us[living[1]].side
           THEN "Invariant violation: mixed sides on tile"
      ELSE IF Len(living) > in.limits.maxUnitsPerTile
           THEN "Invariant violation: too many units on tile"
      ELSE IF totalSize > in.limits.maxSizePerTile
           THEN "Invariant violation: tile exceeds max size"
      ELSE checkTilesFrom(ti, us, in, i + 1)

checkTileConstraints(ti, us, in) == checkTilesFrom(ti, us, in, 1)

-----------------------------------------------------------------------------
(* resolveBattle, step by step *)

Event(t, seq, type, payload) == [tick |-> t, seq |-> seq, type |-> type, payload |-> payload]

\* the units in the order of the input, the sort forgotten
placementOrder(in) == in.units

\* [...input.units].sort((a, b) => a.id - b.id)
sortedUnits(in) == StableSort(in.units, [i \in DOMAIN in.units |-> <<in.units[i].id>>])

\* sortedUnits.map((unit) => unit.id), read back from the unit map it filled
unitOrder == mapOrder(units)

\* an addUnitToTile that starts a new list
addUnitToTileAlone(ti, id, pos) == tileSet(ti, tileKey(pos), <<id>>)

\* addUnitToTile
addUnitToTile(ti, id, pos) ==
    tileSet(ti, tileKey(pos), Append(getTileUnits(ti, <<>>, pos), id))

\* the unit map after the spawn loop
spawnedUnits(in) ==
    [id \in {in.units[i].id : i \in DOMAIN in.units} |->
        LET u == in.units[CHOOSE i \in DOMAIN in.units : in.units[i].id = id]
        IN  [id |-> u.id, side |-> u.side, type |-> u.type, size |-> u.size,
             position |-> u.position, alive |-> TRUE, nextAvailableTick |-> 0]]

\* the tile index after the first k spawns
RECURSIVE spawnedTiles(_, _)
spawnedTiles(sorted, k) ==
    IF k = 0 THEN <<>>
    ELSE addUnitToTile(spawnedTiles(sorted, k - 1), sorted[k].id, sorted[k].position)

\* the spawn events in the order of the units array
spawnEventsAsGiven(in) ==
    <<Event(0, 0, "BattleInit", [input |-> in])>>
        \o [k \in DOMAIN in.units |-> Event(0, in.units[k].id, "UnitSpawned", [unit |-> in.units[k]])]

spawnEvents(in) ==
    LET sorted == sortedUnits(in)
    IN  <<Event(0, 0, "BattleInit", [input |-> in])>>
        \o [k \in DOMAIN sorted |-> Event(0, sorted[k].id, "UnitSpawned", [unit |-> sorted[k]])]

\* (projectilesByTick.get(tick) ?? []).sort((a, b) => a.sourceId - b.sourceId || a.id - b.id);
\* an impactTick is tick + speed * distance and is counted in halves like the
\* distance: a projectile whose impactTick is no whole number is in no list
\* the loop ever gets
\* the projectiles due at tick t or earlier
impactsUpTo(projs, t) ==
    LET due == FilterSeq(projs, {p \in Range(projs) : p.impactTick <= t * Tile})
    IN  StableSort(due, [i \in DOMAIN due |-> <<due[i].sourceId, due[i].id>>])

\* the projectiles due at tick t in the order they were fired
impactsAtFiringOrder(projs, t) ==
    FilterSeq(projs, {p \in Range(projs) : p.impactTick = t * Tile})

impactsAt(projs, t) ==
    LET due == FilterSeq(projs, {p \in Range(projs) : p.impactTick = t * Tile})
    IN  StableSort(due, [i \in DOMAIN due |-> <<due[i].sourceId, due[i].id>>])

\* an action loop that does not look at the alive flag
nextReadyIgnoringAlive(us, t, from) ==
    LET order == mapOrder(us)
        ready == {i \in from..Len(order) : us[order[i]].nextAvailableTick <= t}
    IN  IF ready = {} THEN 0 ELSE CHOOSE i \in ready : \A j \in ready : i <= j

\* an action loop that walks the units from the highest id down
nextReadyDescending(us, t, from) ==
    LET order == mapOrder(us)
        ready == {i \in 1..Len(order) :
                     us[order[i]].alive /\ us[order[i]].nextAvailableTick <= t}
    IN  IF ready = {} THEN 0 ELSE CHOOSE i \in ready : \A j \in ready : i >= j

\* index in the unit order of the first unit from index `from` on that the
\* action loop does not skip at tick t; 0 when it skips all of them
nextReady(us, t, from) ==
    LET order == mapOrder(us)
        ready == {i \in from..Len(order) :
                     us[order[i]].alive /\ us[order[i]].nextAvailableTick <= t}
    IN  IF ready = {} THEN 0 ELSE CHOOSE i \in ready : \A j \in ready : i <= j

\* where the handler stands once the impacts of tick t are done
afterImpacts(us, t) == IF nextReady(us, t, 1) = 0 THEN "check" ELSE "action"

afterUnit(us, t, i) == IF nextReady(us, t, i + 1) = 0 THEN "check" ELSE "action"

countLiving(us, side) == Len(getFriendlyUnits(us, side))

\* a result that counts the units of a side, dead ones included
BattleResultCountsDead(winner, reason, t, us) ==
    [winner |-> winner, reason |-> reason, tick |-> t,
     survivors |-> [Red  |-> Cardinality({id \in DOMAIN us : us[id].side = "Red"}),
                    Blue |-> Cardinality({id \in DOMAIN us : us[id].side = "Blue"})]]

BattleResult(winner, reason, t, us) ==
    [winner |-> winner, reason |-> reason, tick |-> t,
     survivors |-> [Red |-> countLiving(us, "Red"), Blue |-> countLiving(us, "Blue")]]

\* The head of the for loop for tick t, entered with loopGuard = lg: the
\* loop condition, the loop guard and the sorted impacts of the tick; when
\* the loop condition fails, the code after the loop.  It sets the loop's
\* own variables, the log, the result and the error.
LoopHead(t, lg, us, projs, evs) ==
    /\ tick' = t
    /\ activityThisTick' = FALSE
    /\ IF t <= input.timeLimit
         THEN /\ loopGuard' = lg + 1
              /\ events' = evs
              /\ result' = NoResult
              /\ IF lg + 1 > MAX_LOOP_GUARD
                   THEN /\ pc' = "threw"
                        /\ error' = "Loop guard tripped. Check for infinite loop conditions."
                        /\ impacts' = <<>>
                        /\ cursor' = 0
                   ELSE /\ error' = ""
                        /\ impacts' = impactsAt(projs, t)
                        /\ pc' = IF impactsAt(projs, t) # <<>> THEN "impact"
                                 ELSE afterImpacts(us, t)
                        /\ cursor' = IF impactsAt(projs, t) # <<>> THEN 0
                                     ELSE nextReady(us, t, 1)
         ELSE /\ loopGuard' = lg
              /\ result' = BattleResult("Draw", "time_limit", input.timeLimit, us)
              /\ events' = Append(evs, Event(input.timeLimit, 0, "BattleEnded",
                                  BattleResult("Draw", "time_limit", input.timeLimit, us)))
              /\ pc' = "returned"
              /\ impacts' = <<>>
              /\ cursor' = 0
              /\ error' = ""

\* a generator that leaks from one call of resolveBattle into the next
staleRng(in) == IF run = 0 THEN createRng(in.seed) ELSE rng

\* const rng = createRng(input.seed): every call makes its own generator
freshRng(in) == createRng(in.seed)

\* Start of resolveBattle(input): validateInput, createRng, BattleInit, the
\* spawn loop, and the head of the loop for tick 0.
ResolveInput(in) ==
    /\ rngDraws' = 0
    /\ history' = <<>>
    /\ projectiles' = <<>>
    /\ projectileId' = 0
    /\ lastActivityTick' = 0
    /\ IF validateInput(in) # ""
         THEN /\ pc' = "threw"
              /\ error' = validateInput(in)
              /\ rng' = createRng(0)
              /\ events' = <<>>
              /\ units' = <<>>
              /\ tileIndex' = <<>>
              /\ result' = NoResult
              /\ loopGuard' = 0
              /\ tick' = 0
              /\ activityThisTick' = FALSE
              /\ impacts' = <<>>
              /\ cursor' = 0
         ELSE /\ rng' = freshRng(in)
              /\ units' = spawnedUnits(in)
              /\ tileIndex' = spawnedTiles(sortedUnits(in), Len(in.units))
              /\ LoopHead(0, 0, spawnedUnits(in), <<>>, spawnEvents(in))

\* resolveBattle(input) for the input of the message at hand
Resolve == ResolveInput(input)

\* ctx.onmessage, up to the first step of resolveBattle
OnMessage ==
    /\ pc = "idle"
    /\ run = 0
    /\ Resolve
    /\ UNCHANGED <<setupVars, relayVars, engine, input, run, posted>>

\* ctx.onmessage for a second message that carries the same input
OnMessageAgain ==
    /\ pc = "idle"
    /\ run = 1
    /\ Resolve
    /\ UNCHANGED <<setupVars, relayVars, engine, input, run, posted>>

\* the arrays that hold the elements of us in any order
orderings(us) ==
    { [i \in DOMAIN us |-> us[f[i]]] :
        f \in {g \in [DOMAIN us -> DOMAIN us] : \A i, j \in DOMAIN us : i # j => g[i] # g[j]} }

\* ctx.onmessage for a second message whose input is that of the first with
\* the units array in another order
OnMessageReordered ==
    /\ pc = "idle"
    /\ run = 1
    /\ \E us \in orderings(input.units) \ {input.units} :
          input' = [input EXCEPT !.units = us]
    /\ ResolveInput(input')
    /\ UNCHANGED <<setupVars, relayVars, engine, run, posted>>

\* One projectile of the impact loop: the impact event, then its removals.
ImpactStep ==
    /\ pc = "impact"
    /\ LET projectile == Head(impacts)
           impactEvent == Event(tick, projectile.sourceId, "ProjectileImpacted",
                              [sourceId |-> projectile.sourceId,
                               sourceSide |-> projectile.sourceSide,
                               projectile |-> projectile.kind,
                               target |-> projectile.target,
                               impactTick |-> projectile.impactTick])
           occupants == FilterSeq(getTileUnits(tileIndex, units, projectile.target),
                            {id \in DOMAIN units :
                                units[id].alive /\ units[id].side # projectile.sourceSide})
           removedEvent(id, cause) ==
               Event(tick, projectile.sourceId, "UnitRemoved",
                     [unitId |-> id, side |-> units[id].side, cause |-> cause,
                      sourceId |-> projectile.sourceId])
           drawn   == rngStep(rng)
           target  == occupants[nextInt(drawn, Len(occupants)) + 1]
           ordered == StableSort(occupants, [i \in DOMAIN occupants |-> <<occupants[i]>>])
           \* unit map and tile index after the first k removals of a fireball
           burnt[k \in 0..Len(ordered)] ==
               IF k = 0 THEN [units |-> units, tileIndex |-> tileIndex]
               ELSE applyRemoval(ordered[k], burnt[k - 1].tileIndex, burnt[k - 1].units)
           after ==
               IF occupants = <<>>
                 THEN [units |-> units, tileIndex |-> tileIndex, rng |-> rng, draws |-> 0,
                       events |-> <<impactEvent>>]
               ELSE IF projectile.kind = "Arrow"
                 THEN [units |-> applyRemoval(target, tileIndex, units).units,
                       tileIndex |-> applyRemoval(target, tileIndex, units).tileIndex,
                       rng |-> drawn, draws |-> 1,
                       events |-> <<impactEvent, removedEvent(target, "arrow")>>]
               ELSE [units |-> burnt[Len(ordered)].units,
                     tileIndex |-> burnt[Len(ordered)].tileIndex,
                     rng |-> rng, draws |-> 0,
                     events |-> <<impactEvent>> \o
                         [k \in DOMAIN ordered |-> removedEvent(ordered[k], "fireball")]]
       IN
       /\ units' = after.units
       /\ tileIndex' = after.tileIndex
       /\ rng' = after.rng
       /\ rngDraws' = rngDraws + after.draws
       /\ events' = events \o after.events
       /\ activityThisTick' = TRUE
       /\ impacts' = Tail(impacts)
       /\ pc' = IF Tail(impacts) # <<>> THEN "impact" ELSE afterImpacts(after.units, tick)
       /\ cursor' = IF Tail(impacts) # <<>> THEN 0 ELSE nextReady(after.units, tick, 1)
    /\ UNCHANGED <<setupVars, relayVars, engine, history, input, run, posted, projectiles, projectileId, lastActivityTick,
                   loopGuard, tick, result, error>>

\* the unit the action loop is looking at
actingId == unitOrder[cursor]

isMelee(type) == type = "Infantry" \/ type = "Cavalry"

isRanged(type) == type = "Archer" \/ type = "Mage"

meleeTarget(unit, us) == IF isMelee(unit.type) THEN findAdjacentEnemy(unit, us) ELSE <<>>

rangedTiles(unit, us) ==
    IF isRanged(unit.type) THEN getEnemyTilesInRange(unit, us, UNIT_RANGES[unit.type]) ELSE <<>>

\* the nearest tile, the first in enumeration order among equals
chooseArcherTileUnsorted(unit, tiles) ==
    StableSort(tiles, [i \in DOMAIN tiles |-> <<manhattan(unit.position, tiles[i].position)>>])[1]

\* the tile an Archer shoots at
chooseArcherTile(unit, tiles) ==
    LET byDistance == StableSort(tiles,
                          [i \in DOMAIN tiles |-> <<manhattan(unit.position, tiles[i].position)>>])
        nearest == FilterSeq(byDistance,
                       {t \in Range(byDistance) :
                           manhattan(unit.position, t.position) =
                           manhattan(unit.position, byDistance[1].position)})
        sorted == StableSort(nearest, [i \in DOMAIN nearest |-> sortTilesDeterministic(nearest[i])])
    IN  sorted[1]

\* the nearest tile whatever it holds
chooseMageTileNearest(unit, tiles) ==
    StableSort(tiles, [i \in DOMAIN tiles |->
                          <<manhattan(unit.position, tiles[i].position)>>
                          \o sortTilesDeterministic(tiles[i])])[1]

\* the tile a Mage shoots at
chooseMageTile(unit, tiles) ==
    LET byCount == StableSort(tiles, [i \in DOMAIN tiles |-> <<0 - tiles[i].count>>])
        topCount == byCount[1].count
        contenders == FilterSeq(byCount, {t \in Range(byCount) : t.count = topCount})
        sorted == StableSort(contenders,
                      [i \in DOMAIN contenders |->
                          <<manhattan(unit.position, contenders[i].position)>>
                          \o sortTilesDeterministic(contenders[i])])
    IN  sorted[1]

\* the end of one iteration of the action loop: on to the next unit that is
\* alive and ready, or to the termination check
NextUnit(us) ==
    /\ pc' = afterUnit(us, tick, cursor)
    /\ cursor' = nextReady(us, tick, cursor + 1)

\* Infantry or Cavalry with an adjacent enemy: one draw, the attack event,
\* and the removal on a hit.
UnitMelee ==
    /\ pc = "action"
    /\ meleeTarget(units[actingId], units) # <<>>
    /\ LET unit   == units[actingId]
           target == units[meleeTarget(unit, units)[1]]
           drawn  == rngStep(rng)
           hit    == belowHalf(drawn)
           attack == Event(tick, unit.id, "MeleeAttackResolved",
                         [attackerId |-> unit.id, targetId |-> target.id, hit |-> hit])
           removed == Event(tick, unit.id, "UnitRemoved",
                          [unitId |-> target.id, side |-> target.side, cause |-> "melee",
                           sourceId |-> unit.id])
           gone == applyRemoval(target.id, tileIndex, units)
           us   == IF hit /\ target.alive THEN gone.units ELSE units
           after == [us EXCEPT ![unit.id].nextAvailableTick = tick + UNIT_COSTS[unit.type].attack]
       IN
       /\ rng' = drawn
       /\ rngDraws' = rngDraws + 1
       /\ events' = IF hit /\ target.alive THEN events \o <<attack, removed>>
                                           ELSE Append(events, attack)
       /\ units' = after
       /\ tileIndex' = IF hit /\ target.alive THEN gone.tileIndex ELSE tileIndex
       /\ activityThisTick' = TRUE
       /\ NextUnit(after)
    /\ UNCHANGED <<setupVars, relayVars, engine, history, input, run, posted, projectiles, projectileId, lastActivityTick,
                   loopGuard, tick, impacts, result, error>>

\* Archer or Mage with an enemy tile in range: schedule one projectile.
UnitFire ==
    /\ pc = "action"
    /\ rangedTiles(units[actingId], units) # <<>>
    /\ LET unit   == units[actingId]
           tiles  == rangedTiles(unit, units)
           chosen == IF unit.type = "Archer" THEN chooseArcherTile(unit, tiles)
                                              ELSE chooseMageTile(unit, tiles)
           distance == manhattan(unit.position, chosen.position)
           projectileKind == IF unit.type = "Archer" THEN "Arrow" ELSE "Fireball"
           impactTick == tick * Tile + PROJECTILE_SPEED[projectileKind] * distance
           projectile == [id |-> projectileId, kind |-> projectileKind,
                          sourceId |-> unit.id, sourceSide |-> unit.side,
                          from |-> unit.position, target |-> chosen.position,
                          fireTick |-> tick, impactTick |-> impactTick]
           after == [units EXCEPT ![unit.id].nextAvailableTick = tick + UNIT_COSTS[unit.type].attack]
       IN
       /\ projectiles' = Append(projectiles, projectile)
       /\ projectileId' = projectileId + 1
       /\ events' = Append(events, Event(tick, unit.id, "ProjectileFired",
                        [sourceId |-> unit.id, sourceSide |-> unit.side,
                         projectile |-> projectileKind, from |-> projectile.from,
                         target |-> projectile.target, fireTick |-> tick,
                         impactTick |-> impactTick, distance |-> distance]))
       /\ units' = after
       /\ activityThisTick' = TRUE
       /\ NextUnit(after)
    /\ UNCHANGED <<setupVars, relayVars, engine, history, input, run, posted, rng, rngDraws, tileIndex, lastActivityTick,
                   loopGuard, tick, impacts, result, error>>

\* No attack and no shot, and findMoveStep gives a step: move one tile, then
\* checkTileConstraints, which may throw.
UnitMove ==
    /\ pc = "action"
    /\ meleeTarget(units[actingId], units) = <<>>
    /\ rangedTiles(units[actingId], units) = <<>>
    /\ findMoveStep(units[actingId], tileIndex, units, input) # NoPos
    /\ LET unit  == units[actingId]
           step  == findMoveStep(unit, tileIndex, units, input)
           from  == unit.position
           left  == tileSet(tileIndex, tileKey(from),
                        FilterSeq(getTileUnits(tileIndex, units, from), DOMAIN units \ {unit.id}))
           index == addUnitToTile(left, unit.id, step)
           moved == [units EXCEPT ![unit.id].position = step]
           after == [moved EXCEPT ![unit.id].nextAvailableTick = tick + UNIT_COSTS[unit.type].move]
           broken == checkTileConstraints(index, moved, input)
       IN
       /\ tileIndex' = index
       /\ events' = Append(events, Event(tick, unit.id, "UnitMoved",
                        [unitId |-> unit.id, from |-> from, to |-> step]))
       /\ activityThisTick' = TRUE
       /\ IF broken # ""
            THEN /\ units' = moved
                 /\ pc' = "threw"
                 /\ error' = broken
                 /\ cursor' = cursor
            ELSE /\ units' = after
                 /\ error' = error
                 /\ NextUnit(after)
    /\ UNCHANGED <<setupVars, relayVars, engine, history, input, run, posted, rng, rngDraws, projectiles, projectileId,
                   lastActivityTick, loopGuard, tick, impacts, result>>

\* a wait that takes a draw
UnitWaitWithDraw ==
    /\ pc = "action"
    /\ meleeTarget(units[actingId], units) = <<>>
    /\ rangedTiles(units[actingId], units) = <<>>
    /\ findMoveStep(units[actingId], tileIndex, units, input) = NoPos
    /\ LET unit  == units[actingId]
           after == [units EXCEPT ![unit.id].nextAvailableTick = tick + UNIT_COSTS[unit.type].wait]
       IN
       /\ units' = after
       /\ NextUnit(after)
    /\ rng' = rngStep(rng)
    /\ rngDraws' = rngDraws + 1
    /\ UNCHANGED <<setupVars, relayVars, engine, history, input, run, posted, events, tileIndex, projectiles,
                   projectileId, lastActivityTick, loopGuard, tick, activityThisTick,
                   impacts, result, error>>

\* a wait that registers activity
UnitWaitActive ==
    /\ pc = "action"
    /\ meleeTarget(units[actingId], units) = <<>>
    /\ rangedTiles(units[actingId], units) = <<>>
    /\ findMoveStep(units[actingId], tileIndex, units, input) = NoPos
    /\ LET unit  == units[actingId]
           after == [units EXCEPT ![unit.id].nextAvailableTick = tick + UNIT_COSTS[unit.type].wait]
       IN
       /\ units' = after
       /\ NextUnit(after)
    /\ activityThisTick' = TRUE
    /\ UNCHANGED <<setupVars, relayVars, engine, history, input, run, posted, rng, rngDraws, events, tileIndex, projectiles,
                   projectileId, lastActivityTick, loopGuard, tick,
                   impacts, result, error>>

\* Nothing to do: wait, silently.
UnitWait ==
    /\ pc = "action"
    /\ meleeTarget(units[actingId], units) = <<>>
    /\ rangedTiles(units[actingId], units) = <<>>
    /\ findMoveStep(units[actingId], tileIndex, units, input) = NoPos
    /\ LET unit  == units[actingId]
           after == [units EXCEPT ![unit.id].nextAvailableTick = tick + UNIT_COSTS[unit.type].wait]
       IN
       /\ units' = after
       /\ NextUnit(after)
    /\ UNCHANGED <<setupVars, relayVars, engine, history, input, run, posted, rng, rngDraws, events, tileIndex, projectiles,
                   projectileId, lastActivityTick, loopGuard, tick, activityThisTick,
                   impacts, result, error>>

\* a termination check that looks at the tick limit before the elimination
terminationCheckTimeFirst(us, t, timeLimit, lastActivity) ==
    LET redLeft  == countLiving(us, "Red")
        blueLeft == countLiving(us, "Blue")
    IN
    IF t >= timeLimit THEN BattleResult("Draw", "time_limit", t, us)
    ELSE IF redLeft = 0 \/ blueLeft = 0
      THEN BattleResult(IF redLeft = 0 /\ blueLeft = 0 THEN "Draw"
                        ELSE IF redLeft = 0 THEN "Blue" ELSE "Red",
                        "eliminated", t, us)
    ELSE IF t - lastActivity >= STALL_TICKS THEN BattleResult("Draw", "stalled", t, us)
    ELSE NoResult

\* a termination check that finds the tick limit one tick early
terminationCheckEarly(us, t, timeLimit, lastActivity) ==
    LET redLeft  == countLiving(us, "Red")
        blueLeft == countLiving(us, "Blue")
    IN
    IF redLeft = 0 \/ blueLeft = 0
      THEN BattleResult(IF redLeft = 0 /\ blueLeft = 0 THEN "Draw"
                        ELSE IF redLeft = 0 THEN "Blue" ELSE "Red",
                        "eliminated", t, us)
    ELSE IF t + 1 >= timeLimit THEN BattleResult("Draw", "time_limit", t, us)
    ELSE IF t - lastActivity >= STALL_TICKS THEN BattleResult("Draw", "stalled", t, us)
    ELSE NoResult

\* a termination check that wants more than STALL_TICKS idle ticks
terminationCheckStallLate(us, t, timeLimit, lastActivity) ==
    LET redLeft  == countLiving(us, "Red")
        blueLeft == countLiving(us, "Blue")
    IN
    IF redLeft = 0 \/ blueLeft = 0
      THEN BattleResult(IF redLeft = 0 /\ blueLeft = 0 THEN "Draw"
                        ELSE IF redLeft = 0 THEN "Blue" ELSE "Red",
                        "eliminated", t, us)
    ELSE IF t >= timeLimit THEN BattleResult("Draw", "time_limit", t, us)
    ELSE IF t - lastActivity > STALL_TICKS THEN BattleResult("Draw", "stalled", t, us)
    ELSE NoResult

\* the termination check of tick t on the unit map: the result, NoResult
\* when the loop goes on
terminationCheck(us, t, timeLimit, lastActivity) ==
    LET redLeft  == countLiving(us, "Red")
        blueLeft == countLiving(us, "Blue")
    IN
    IF redLeft = 0 \/ blueLeft = 0
      THEN BattleResult(IF redLeft = 0 /\ blueLeft = 0 THEN "Draw"
                        ELSE IF redLeft = 0 THEN "Blue" ELSE "Red",
                        "eliminated", t, us)
    ELSE IF t >= timeLimit THEN BattleResult("Draw", "time_limit", t, us)
    ELSE IF t - lastActivity >= STALL_TICKS THEN BattleResult("Draw", "stalled", t, us)
    ELSE NoResult

\* End of a tick: registerActivity, the termination check, and when the
\* battle goes on the head of the loop for the next tick.
EndTick ==
    /\ pc = "check"
    /\ LET activity == IF activityThisTick THEN tick ELSE lastActivityTick
           ended    == terminationCheck(units, tick, input.timeLimit, activity)
       IN
       /\ lastActivityTick' = activity
       /\ history' = Append(history, units)
       /\ IF ended # NoResult
            THEN /\ result' = ended
                 /\ events' = Append(events, Event(tick, 0, "BattleEnded", ended))
                 /\ pc' = "returned"
                 /\ UNCHANGED <<tick, loopGuard, activityThisTick, impacts, cursor, error>>
            ELSE LoopHead(tick + 1, loopGuard, units, projectiles, events)
    /\ UNCHANGED <<setupVars, relayVars, engine, input, run, posted, rng, rngDraws, units, tileIndex, projectiles,
                   projectileId>>

\* ctx.postMessage({ type: "result", output }) once resolveBattle has returned
PostResult ==
    /\ pc = "returned"
    /\ posted' = Append(posted, [type |-> "result",
                                 output |-> [input |-> input, events |-> events,
                                             result |-> result]])
    /\ pc' = "idle"
    /\ run' = run + 1
    /\ UNCHANGED <<setupVars, relayVars, engine, history, input, rng, rngDraws, events, units, tileIndex, projectiles, projectileId,
                   lastActivityTick, loopGuard, tick, activityThisTick, impacts, cursor,
                   result, error>>

\* a catch branch that posts what resolveBattle had built when it threw
PostErrorWithLog ==
    /\ pc = "threw"
    /\ posted' = Append(posted, [type |-> "result",
                                 output |-> [input |-> input, events |-> events,
                                             result |-> result]])
    /\ pc' = "idle"
    /\ run' = run + 1
    /\ UNCHANGED <<setupVars, relayVars, engine, history, input, rng, rngDraws, events, units, tileIndex, projectiles, projectileId,
                   lastActivityTick, loopGuard, tick, activityThisTick, impacts, cursor,
                   result, error>>

\* the catch branch: ctx.postMessage({ type: "error", message })
PostError ==
    /\ pc = "threw"
    /\ posted' = Append(posted, [type |-> "error", message |-> error])
    /\ pc' = "idle"
    /\ run' = run + 1
    /\ UNCHANGED <<setupVars, relayVars, engine, history, input, rng, rngDraws, events, units, tileIndex, projectiles, projectileId,
                   lastActivityTick, loopGuard, tick, activityThisTick, impacts, cursor,
                   result, error>>

-----------------------------------------------------------------------------
(* The page's ReplayEngine (src/src/resolver/worker.ts).  Its tileFacing map *)
(* only steers the drawing and starts from DEFAULT_FACING, a constant that   *)
(* is not in the sources at hand; it is left out.                            *)

NoEngine == [made |-> FALSE]

\* this.eventsByTick.get(tick) ?? []: indexEvents files every event under its
\* tick, in the order of the log
eventsByTick(evs, t) == FilterSeq(evs, {e \in Range(evs) : e.tick = t})

\* new ReplayEngine(output)
ReplayEngine(output) ==
    [made |-> TRUE, input |-> output.input, events |-> output.events,
     currentTick |-> -1, projectileId |-> 0, units |-> <<>>, projectiles |-> <<>>,
     moveAnimations |-> <<>>, meleeFlashes |-> <<>>, result |-> output.result]

\* reset()
reset(eng) ==
    [eng EXCEPT !.currentTick = -1, !.projectileId = 0, !.units = <<>>,
                !.projectiles = <<>>, !.moveAnimations = <<>>, !.meleeFlashes = <<>>]

\* Map.set
mapSet(map, key, value) == (key :> value) @@ map

\* applyEvent(event)
applyEvent(eng, event) ==
    LET payload == event.payload
    IN
    CASE event.type = "BattleInit" -> [eng EXCEPT !.input = payload.input]
      [] event.type = "UnitSpawned" ->
            [eng EXCEPT !.units = mapSet(@, payload.unit.id,
                [id |-> payload.unit.id, side |-> payload.unit.side,
                 type |-> payload.unit.type, size |-> payload.unit.size,
                 position |-> payload.unit.position, alive |-> TRUE])]
      [] event.type = "UnitMoved" ->
            IF payload.unitId \notin DOMAIN eng.units THEN eng
            ELSE [eng EXCEPT
                    !.moveAnimations = mapSet(@, payload.unitId,
                        [unitId |-> payload.unitId, from |-> payload.from, to |-> payload.to,
                         startTick |-> event.tick, endTick |-> event.tick + 1]),
                    !.units[payload.unitId].position = payload.to]
      [] event.type = "MeleeAttackResolved" ->
            IF payload.targetId \notin DOMAIN eng.units THEN eng
            ELSE [eng EXCEPT !.meleeFlashes = Append(@,
                    [position |-> eng.units[payload.targetId].position,
                     startTick |-> event.tick, duration |-> "0.5"])]
      [] event.type = "ProjectileFired" ->
            [eng EXCEPT
                !.projectiles = Append(@,
                    [id |-> eng.projectileId, sourceId |-> payload.sourceId,
                     sourceSide |-> payload.sourceSide, kind |-> payload.projectile,
                     from |-> payload.from, target |-> payload.target,
                     fireTick |-> payload.fireTick, impactTick |-> payload.impactTick]),
                !.projectileId = @ + 1]
      [] event.type = "ProjectileImpacted" ->
            [eng EXCEPT !.projectiles = FilterSeq(@,
                {projectile \in Range(eng.projectiles) :
                    ~(/\ projectile.sourceId = payload.sourceId
                      /\ projectile.impactTick = payload.impactTick
                      /\ projectile.kind = payload.projectile
                      /\ projectile.target.x = payload.target.x
                      /\ projectile.target.y = payload.target.y)})]
      [] event.type = "UnitRemoved" ->
            IF payload.unitId \notin DOMAIN eng.units THEN eng
            ELSE [eng EXCEPT !.units[payload.unitId].alive = FALSE]
      [] event.type = "BattleEnded" -> [eng EXCEPT !.result = payload]
      [] OTHER -> eng

\* the inner loop of advanceTo: applyEvent for every event of one tick
RECURSIVE applyEvents(_, _)
applyEvents(eng, evs) ==
    IF evs = <<>> THEN eng ELSE applyEvents(applyEvent(eng, Head(evs)), Tail(evs))

\* an advanceTo that jumps to the target tick and applies its events only
RECURSIVE advanceToJumping(_, _)
advanceToJumping(eng, targetTick) ==
    IF eng.currentTick + 1 > targetTick THEN eng
    ELSE [applyEvents(eng, eventsByTick(eng.events, targetTick))
             EXCEPT !.currentTick = targetTick]

\* advanceTo(targetTick)
RECURSIVE advanceTo(_, _)
advanceTo(eng, targetTick) ==
    IF eng.currentTick + 1 > targetTick THEN eng
    ELSE advanceTo([applyEvents(eng, eventsByTick(eng.events, eng.currentTick + 1))
                       EXCEPT !.currentTick = eng.currentTick + 1],
                   targetTick)

\* The page once the worker's result has arrived, and resetReplay() (the
\* restart button): a new engine, reset() and advanceTo(0); the playhead is
\* at tick 0 and maxTick is output.result.tick.
ResetReplay ==
    /\ pc = "idle"
    /\ run = 1
    /\ posted[1].type = "result"
    /\ engine' = advanceTo(reset(ReplayEngine(posted[1].output)), 0)
    /\ UNCHANGED <<setupVars, relayVars, history, input, pc, run, posted, rng, rngDraws, events, units, tileIndex,
                   projectiles, projectileId, lastActivityTick, loopGuard, tick,
                   activityThisTick, impacts, cursor, result, error>>

\* most ticks the playhead crosses between two animation frames
MaxFrameTicks == 3

\* The step button and the animation frame: the playhead moves forward, to
\* maxTick at most, and the engine advances to the tick it is in.
AdvanceReplay ==
    /\ engine.made
    /\ \E playhead \in (engine.currentTick + 1)..(engine.currentTick + MaxFrameTicks) :
          /\ playhead <= posted[1].output.result.tick
          /\ engine' = advanceTo(engine, playhead)
    /\ UNCHANGED <<setupVars, relayVars, history, input, pc, run, posted, rng, rngDraws, events, units, tileIndex,
                   projectiles, projectileId, lastActivityTick, loopGuard, tick,
                   activityThisTick, impacts, cursor, result, error>>

-----------------------------------------------------------------------------
(* The inputs explored *)

UnitInput(id, side, type, size, x, y) ==
    [id |-> id, side |-> side, type |-> type, size |-> size,
     position |-> Pos(x * Tile, y * Tile)]

\* longest units array drawn from the roster
MaxUnits == 3

\* largest tick limit
MaxTimeLimit == 40

\* The units an input is made of.  Entries 1 to 8 pass validateInput on
\* their own; entry 9 repeats id 1 with a size that is not its type's, entry
\* 10 stands outside its side's deployment columns, entry 11 outside the grid.
Roster ==
    << UnitInput(1, "Red",  "Infantry", 2, 2, 0),
       UnitInput(2, "Blue", "Infantry", 2, 9, 0),
       UnitInput(3, "Blue", "Archer",   2, 9, 1),
       UnitInput(4, "Red",  "Cavalry",  3, 2, 1),
       UnitInput(5, "Red",  "Mage",     2, 1, 0),
       UnitInput(6, "Blue", "Mage",     2, 9, 0),
       UnitInput(7, "Red",  "Archer",   2, 2, 0),
       UnitInput(8, "Blue", "Cavalry",  3, 9, 0),
       UnitInput(1, "Red",  "Infantry", 3, 2, 0),
       UnitInput(9, "Red",  "Infantry", 2, 3, 0),
       UnitInput(10, "Blue", "Archer",  2, 10, 1) >>

Reverse(s) == [i \in DOMAIN s |-> s[Len(s) + 1 - i]]

\* the units arrays: at most MaxUnits entries of the roster, in the order of
\* the roster or in the opposite order
UnitArrays ==
    LET picks == {S \in SUBSET DOMAIN Roster : Cardinality(S) <= MaxUnits}
        inOrder(S) == [i \in 1..Cardinality(S) |-> Roster[AscendingSeq(S)[i]]]
    IN  {inOrder(S) : S \in picks} \cup {Reverse(inOrder(S)) : S \in picks}

DefaultLimits == [maxUnitsPerTile |-> 4, maxSizePerTile |-> 10]

LimitChoices ==
    { DefaultLimits,
      [maxUnitsPerTile |-> 2, maxSizePerTile |-> 4],
      [maxUnitsPerTile |-> 1, maxSizePerTile |-> 2] }

Seeds == {0, 682}

TimeLimits == {-1, 0, 12, MaxTimeLimit}

\* limits, seed and tick limit: the limits other than the default ones and
\* the tick limits below 12 go with seed 0 only, the former with the largest
\* tick limit only
Configs ==
    { c \in [limits : LimitChoices, seed : Seeds, timeLimit : TimeLimits] :
        /\ c.limits # DefaultLimits => c.seed = 0 /\ c.timeLimit = MaxTimeLimit
        /\ c.timeLimit < 12 => c.seed = 0 }

RosterInputs ==
    { [grid |-> [width |-> 10, height |-> 2], limits |-> c.limits, seed |-> c.seed,
       timeLimit |-> c.timeLimit, units |-> us] : c \in Configs, us \in UnitArrays }

\* a battle on the same grid with the default limits and seed 0
Battle(timeLimit, us) ==
    [grid |-> [width |-> 10, height |-> 2], limits |-> DefaultLimits, seed |-> 0,
     timeLimit |-> timeLimit, units |-> us]

\* the unit half a tile further right: x + 0.5
HalfRight(u) == [u EXCEPT !.position.x = @ + 1]

\* one Red infantry at (0,0) next to one Blue infantry at (1,0)
MeleeScenario ==
    Battle(MaxTimeLimit, << UnitInput(1, "Red", "Infantry", 2, 0, 0),
                            UnitInput(2, "Blue", "Infantry", 2, 1, 0) >>)

\* a tick limit that leaves room for STALL_TICKS idle ticks after a fight
StallTimeLimit == STALL_TICKS + MaxTimeLimit

\* One unit per side and no step that brings them together: the Red infantry
\* stands at (1.5, 0), the tiles next to the Blue infantry at (9, 0) are
\* whole numbers, and a walk in steps of 1 from one never meets the other.
StallScenario ==
    Battle(StallTimeLimit, << HalfRight(UnitInput(1, "Red", "Infantry", 2, 1, 0)),
                              UnitInput(2, "Blue", "Infantry", 2, 9, 0) >>)

\* the same with a second Red infantry, at (2, 0), that fights the Blue one
\* first, and with the tick limit at the very tick the stall is found
LateStallScenarios ==
    { Battle(t, << HalfRight(UnitInput(1, "Red", "Infantry", 2, 1, 0)),
                   UnitInput(2, "Blue", "Infantry", 2, 9, 0),
                   UnitInput(3, "Red", "Infantry", 2, 2, 0) >>) :
        t \in {STALL_TICKS, StallTimeLimit} }
    \cup { [StallScenario EXCEPT !.timeLimit = STALL_TICKS] }

\* two battles of two units a side, each side with two units on one tile
CrowdedBattles ==
    { Battle(MaxTimeLimit, << Roster[1], Roster[2], Roster[7], Roster[8] >>),
      Battle(MaxTimeLimit, << Roster[1], Roster[2], Roster[4], Roster[6] >>) }

\* A Red infantry at (1.5, 0) walks towards a Blue infantry at (9.5, 0) and
\* into the range of a Blue mage at (9, 0), at a distance that is not a whole
\* number of tiles.
HalfTileBattle ==
    Battle(MaxTimeLimit, << HalfRight(UnitInput(1, "Red", "Infantry", 2, 1, 0)),
                            UnitInput(2, "Blue", "Mage", 2, 9, 0),
                            HalfRight(UnitInput(3, "Blue", "Infantry", 2, 9, 0)) >>)

\* battles of ranged units: a Blue mage against two Red archers and a Red
\* mage that share a tile; a mage and an archer a side; a Red infantry and a
\* Red mage against a Blue archer and a Blue mage, twice; two Red mages
\* against a Blue infantry and a Blue archer
RangedBattles ==
    { Battle(MaxTimeLimit, << Roster[6], Roster[7],
                              UnitInput(14, "Red", "Archer", 2, 2, 1),
                              UnitInput(15, "Red", "Mage", 2, 2, 1) >>),
      Battle(MaxTimeLimit, << Roster[5], Roster[6], Roster[7],
                              UnitInput(13, "Blue", "Archer", 2, 9, 0) >>),
      Battle(MaxTimeLimit, << Roster[1], Roster[3],
                              UnitInput(15, "Red", "Mage", 2, 2, 1),
                              UnitInput(16, "Blue", "Mage", 2, 9, 1) >>),
      Battle(MaxTimeLimit, << Roster[1], UnitInput(13, "Blue", "Archer", 2, 9, 0),
                              UnitInput(15, "Red", "Mage", 2, 2, 1),
                              UnitInput(16, "Blue", "Mage", 2, 9, 1) >>),
      Battle(MaxTimeLimit, << Roster[2], Roster[5],
                              UnitInput(13, "Blue", "Archer", 2, 9, 0),
                              UnitInput(15, "Red", "Mage", 2, 2, 1) >>),
      HalfTileBattle, [HalfTileBattle EXCEPT !.seed = 682] }

\* A Blue cavalry (id 8) and a Blue infantry (id 2) start on one tile and
\* meet again on a tile the cavalry reaches first; a Red archer shoots at it.
ArrivalOrderBattle ==
    [Battle(MaxTimeLimit, << Roster[2], Roster[7], Roster[8],
                             UnitInput(11, "Red", "Infantry", 2, 2, 0) >>)
        EXCEPT !.seed = 682]

Inputs ==
    RosterInputs \cup {MeleeScenario, StallScenario} \cup LateStallScenarios
        \cup CrowdedBattles \cup RangedBattles \cup {ArrivalOrderBattle}


-----------------------------------------------------------------------------
(* The page's setup mode (src/src/resolver/worker.ts, app): placing and   *)
(* removing units, building the input.  Positions are in halves of a tile *)
(* like the resolver's.                                                   *)

GRID_WIDTH == 12
GRID_HEIGHT == 8

TILE_LIMITS == [maxUnitsPerTile |-> 4, maxSizePerTile |-> 10]

TIME_LIMIT_TICKS == 2000

\* the seed field as the page fills it: a number from 1 to 100000
seedDefault == 1

\* units the page may hold ids for
MaxPlacements == 4

NoPlacement == [ok |-> FALSE, reason |-> "", unitId |-> 0]

NoInput == [grid |-> [width |-> 0, height |-> 0], limits |-> TILE_LIMITS, seed |-> 0,
            timeLimit |-> 0, units |-> <<>>]

SIDE_ALIASES == ("red" :> "Red") @@ ("blue" :> "Blue")

TYPE_ALIASES ==
    ("infantry" :> "Infantry") @@ ("archer" :> "Archer") @@ ("cavalry" :> "Cavalry")
        @@ ("mage" :> "Mage")

\* what every object literal inherits under a lower-case name: its
\* constructor and its prototype
Inherited == ("constructor" :> "function Object") @@ ("__proto__" :> "[object Object]")

\* table[key] ?? null, null written ""
lookup(table, key) ==
    IF key \in DOMAIN table THEN table[key]
    ELSE IF key \in DOMAIN Inherited THEN Inherited[key]
    ELSE ""

\* value.trim().toLowerCase() of the strings an agent sends as side and type
trimLower ==
    ("red" :> "red") @@ (" Blue " :> "blue") @@ ("green" :> "green")
        @@ ("constructor" :> "constructor") @@ ("infantry" :> "infantry")
        @@ ("Cavalry" :> "cavalry") @@ ("knight" :> "knight") @@ ("__proto__" :> "__proto__")

parseSide(value) == lookup(SIDE_ALIASES, trimLower[value])

parseUnitType(value) == lookup(TYPE_ALIASES, trimLower[value])

\* the values an agent sends as x and y: a number, in halves, null and a
\* string that is no number
Number(halves) == [kind |-> "number", halves |-> halves]

Null == [kind |-> "null", halves |-> 0]

NoNumber == [kind |-> "string", halves |-> 0]

\* parseGridIndex: Number(value) when it is an integer, else null, written
\* Undefined
parseGridIndex(value) ==
    IF value.kind = "null" THEN 0
    ELSE IF value.kind = "number" /\ value.halves % Tile = 0 THEN value.halves
    ELSE Undefined

\* the columns and rows of the clicks and requests, in tiles
ProbeColumns == {-1, 0, 11, 12}

ProbeRows == {0}

\* the type buttons pressed
ButtonTypes == {"Infantry", "Cavalry"}

Request(side, type, x, y) == [side |-> side, type |-> type, x |-> x, y |-> y]

\* the requests of the agent: a side, a type and a tile of the side's columns,
\* and requests with one field that is no side, no type, no index or no
\* tile of the grid
AgentRequests ==
    { Request(place[1], type, Number(place[2] * Tile), Number(0)) :
        place \in {<<"red", 0>>, <<" Blue ", 11>>},
        type \in {"infantry", "Cavalry", "__proto__"} }
    \cup { Request(side, "infantry", Number(x * Tile), Number(0)) :
             side \in {"green", "constructor", "red"}, x \in ProbeColumns }
    \cup { Request("red", "knight", Null, Number(0)),
           Request("red", "infantry", Null, Null),
           Request("red", "infantry", Number(1), Number(0)),
           Request("red", "infantry", NoNumber, Number(0)),
           Request("red", "infantry", Number(0), NoNumber),
           Request("red", "infantry", Number(0), Number(GRID_HEIGHT * Tile)) }

\* occupants.reduce((sum, unit) => sum + unit.size, 0)
RECURSIVE SumSizes(_)
SumSizes(list) == IF list = <<>> THEN 0 ELSE plus(SumSizes(SubSeq(list, 1, Len(list) - 1)), list[Len(list)].size)

\* Math.max over a set of ids
MaxOf(ids) == CHOOSE m \in ids : \A other \in ids : other <= m

\* getTileUnits of the page
tileUnitsOf(list, pos) == FilterSeq(list, {unit \in Range(list) : unit.position = pos})

\* canPlaceUnit without the size cap
canPlaceUnitUnsized(list, pos, side, size) ==
    LET occupants == tileUnitsOf(list, pos)
    IN
    IF pos.x < 0 \/ pos.y < 0 \/ pos.x >= GRID_WIDTH * Tile \/ pos.y >= GRID_HEIGHT * Tile
      THEN "Outside grid."
    ELSE IF side \notin DOMAIN DEPLOYMENT_COLUMNS THEN "TypeError"
    ELSE IF pos.x < DEPLOYMENT_COLUMNS[side].start * Tile
              \/ pos.x > DEPLOYMENT_COLUMNS[side].end * Tile
      THEN "Outside deployment zone."
    ELSE IF \E i \in DOMAIN occupants : occupants[i].side # side
      THEN "Tile already occupied by enemy side."
    ELSE IF Len(occupants) + 1 > TILE_LIMITS.maxUnitsPerTile THEN "Tile unit limit reached."
    ELSE ""

\* canPlaceUnit: "" for { ok: true }, else the reason; the TypeError of
\* zone.start for a side DEPLOYMENT_COLUMNS has no entry for
canPlaceUnit(list, pos, side, size) ==
    LET occupants == tileUnitsOf(list, pos)
        totalSize == plus(SumSizes(occupants), size)
    IN
    IF pos.x < 0 \/ pos.y < 0 \/ pos.x >= GRID_WIDTH * Tile \/ pos.y >= GRID_HEIGHT * Tile
      THEN "Outside grid."
    ELSE IF side \notin DOMAIN DEPLOYMENT_COLUMNS THEN "TypeError"
    ELSE IF pos.x < DEPLOYMENT_COLUMNS[side].start * Tile
              \/ pos.x > DEPLOYMENT_COLUMNS[side].end * Tile
      THEN "Outside deployment zone."
    ELSE IF \E i \in DOMAIN occupants : occupants[i].side # side
      THEN "Tile already occupied by enemy side."
    ELSE IF Len(occupants) + 1 > TILE_LIMITS.maxUnitsPerTile THEN "Tile unit limit reached."
    ELSE IF exceeds(totalSize, TILE_LIMITS.maxSizePerTile) THEN "Tile size limit exceeded."
    ELSE ""

\* placeUnitAt: the list, the next id and the value returned; a TypeError
\* leaves the function before any of them is set
placeUnitAt(pos, side, type) ==
    LET size == unitSize(type)
        validation == canPlaceUnit(setupUnits, pos, side, size)
        unit == [id |-> nextUnitId, side |-> side, type |-> type, size |-> size,
                 position |-> pos]
    IN
    IF validation = "TypeError"
      THEN [units |-> setupUnits, next |-> nextUnitId,
            returned |-> [ok |-> FALSE, reason |-> "TypeError", unitId |-> 0]]
    ELSE IF validation # ""
      THEN [units |-> setupUnits, next |-> nextUnitId,
            returned |-> [ok |-> FALSE, reason |-> validation, unitId |-> 0]]
    ELSE [units |-> Append(setupUnits, unit), next |-> nextUnitId + 1,
          returned |-> [ok |-> TRUE, reason |-> "", unitId |-> unit.id]]

\* removeUnit: the last unit of the list that stands on the tile
removeUnit(list, pos) ==
    LET occupants == tileUnitsOf(list, pos)
        unit == occupants[Len(occupants)]
    IN  IF occupants = <<>> THEN list
        ELSE FilterSeq(list, {entry \in Range(list) : entry.id # unit.id})

\* buildInput, with the seed and the tick limit the page starts with
buildInput(list) ==
    [grid |-> [width |-> GRID_WIDTH, height |-> GRID_HEIGHT], limits |-> TILE_LIMITS,
     seed |-> seedDefault, timeLimit |-> TIME_LIMIT_TICKS, units |-> list]

SetupStart ==
    /\ mode = "setup"
    /\ setupUnits = <<>>
    /\ nextUnitId = 1
    /\ selectedSide = "Red"
    /\ selectedType = "Infantry"
    /\ agentResult = NoPlacement
    /\ pageInput = NoInput

\* a side button
SelectSide ==
    /\ \E side \in {"Red", "Blue"} : selectedSide' = side
    /\ UNCHANGED <<resolverVars, relayVars, mode, setupUnits, nextUnitId, selectedType,
                   agentResult, pageInput>>

\* a type button
SelectType ==
    /\ \E type \in ButtonTypes : selectedType' = type
    /\ UNCHANGED <<resolverVars, relayVars, mode, setupUnits, nextUnitId, selectedSide,
                   agentResult, pageInput>>

\* a click on the canvas: nothing outside setup mode, else placeUnit
CanvasClick ==
    /\ \E x \in ProbeColumns, y \in ProbeRows :
          LET placed == placeUnitAt(Pos(x * Tile, y * Tile), selectedSide, selectedType)
          IN  IF mode # "setup"
                THEN UNCHANGED <<setupUnits, nextUnitId>>
                ELSE /\ setupUnits' = placed.units
                     /\ nextUnitId' = placed.next
    /\ nextUnitId' <= MaxPlacements + 1
    /\ UNCHANGED <<resolverVars, relayVars, mode, selectedSide, selectedType, agentResult,
                   pageInput>>

\* a right click on the canvas: nothing outside setup mode, else removeUnit
CanvasContextMenu ==
    /\ \E x \in ProbeColumns, y \in ProbeRows :
          LET pos == Pos(x * Tile, y * Tile)
          IN  IF mode # "setup"
                THEN UNCHANGED setupUnits
                ELSE setupUnits' = removeUnit(setupUnits, pos)
    /\ UNCHANGED <<resolverVars, relayVars, mode, nextUnitId, selectedSide, selectedType,
                   agentResult, pageInput>>

\* window.battlePrototype.placeUnit(request) for a request that is an object
PlaceUnitFromAgent ==
    /\ \E request \in AgentRequests :
          LET side == parseSide(request.side)
              type == parseUnitType(request.type)
              x == parseGridIndex(request.x)
              y == parseGridIndex(request.y)
              rejected(reason) ==
                  /\ agentResult' = [ok |-> FALSE, reason |-> reason, unitId |-> 0]
                  /\ UNCHANGED <<setupUnits, nextUnitId>>
              placed == placeUnitAt(Pos(x, y), side, type)
          IN  IF mode # "setup" THEN rejected("Not in setup mode.")
              ELSE IF side = "" THEN rejected("Invalid side.")
              ELSE IF type = "" THEN rejected("Invalid unit type.")
              ELSE IF x = Undefined \/ y = Undefined THEN rejected("Invalid coordinates.")
              ELSE /\ setupUnits' = placed.units
                   /\ nextUnitId' = placed.next
                   /\ agentResult' = placed.returned
    /\ nextUnitId' <= MaxPlacements + 1
    /\ UNCHANGED <<resolverVars, relayVars, mode, selectedSide, selectedType, pageInput>>

\* the resolve button of the setup panel: with no unit a status only, else
\* the input is built and posted to a new worker
ResolveClick ==
    /\ mode = "setup"
    /\ IF setupUnits = <<>>
         THEN UNCHANGED <<mode, pageInput>>
         ELSE /\ mode' = "resolving"
              /\ pageInput' = buildInput(setupUnits)
    /\ UNCHANGED <<resolverVars, relayVars, setupUnits, nextUnitId, selectedSide, selectedType,
                   agentResult>>

\* worker.onmessage of the page: an error brings the page back to setup
\* mode, an output to replay mode; the worker answers an input that
\* validateInput rejects with an error
WorkerAnswer ==
    /\ mode = "resolving"
    /\ \E type \in {"error", "result"} :
          /\ type = "result" => validateInput(pageInput) = ""
          /\ IF type = "error"
               THEN /\ mode' = "setup"
                    /\ pageInput' = NoInput
               ELSE /\ mode' = "replay"
                    /\ UNCHANGED pageInput
    /\ UNCHANGED <<resolverVars, relayVars, setupUnits, nextUnitId, selectedSide, selectedType,
                   agentResult>>

\* the setup button of the replay panel: returnToSetup, which loads
\* output.input: the units, and nextUnitId one above the highest id
ReturnToSetup ==
    /\ mode = "replay"
    /\ setupUnits' = pageInput.units
    /\ nextUnitId' = MaxOf({0} \cup {pageInput.units[i].id : i \in DOMAIN pageInput.units}) + 1
    /\ mode' = "setup"
    /\ pageInput' = NoInput
    /\ UNCHANGED <<resolverVars, relayVars, selectedSide, selectedType, agentResult>>

-----------------------------------------------------------------------------
(* src/unnamed/part_002: the command relay *)

BACKLOG_LIMIT == 100

\* posts handled, event streams opened and heartbeats written per stream
MaxPosts == 3
MaxClients == 2
MaxHeartbeats == 1

NoReply == [status |-> 0, ok |-> FALSE, id |-> 0, reason |-> ""]

NoCommand == [id |-> 0, action |-> ""]

\* the command made of an accepted post; randomUUID() gives an id no earlier
\* command has: the number of the command
Command(n, action) == [id |-> n, action |-> action]

\* what res.write puts on a stream: a comment line or a data line
Comment(text) == [kind |-> text, command |-> NoCommand]

Data(command) == [kind |-> "data", command |-> command]

\* a backlog that is never cut
addToBacklogUnbounded(list, command) == Append(list, command)

\* addToBacklog: push, then shift while the list is longer than BACKLOG_LIMIT
addToBacklog(list, command) ==
    LET pushed == Append(list, command)
    IN  IF Len(pushed) > BACKLOG_LIMIT
          THEN SubSeq(pushed, Len(pushed) - BACKLOG_LIMIT + 1, Len(pushed))
          ELSE pushed

\* the bodies of the POST requests: no JSON, JSON without a string `action`,
\* and commands
Bodies ==
    { [json |-> FALSE, action |-> ""], [json |-> TRUE, action |-> ""],
      [json |-> TRUE, action |-> "placeUnit"] }

\* the relay after k commands were accepted while no stream was open
RelayAfter(k) ==
    /\ relayLog = [i \in 1..k |-> Command(i, "placeUnit")]
    /\ backlog = [i \in 1..(IF k > BACKLOG_LIMIT THEN BACKLOG_LIMIT ELSE k) |->
                     Command((IF k > BACKLOG_LIMIT THEN k - BACKLOG_LIMIT ELSE 0) + i, "placeUnit")]
    /\ clients = {}
    /\ streams = <<>>
    /\ heartbeats = {}
    /\ lastReply = IF k = 0 THEN NoReply ELSE [status |-> 200, ok |-> TRUE, id |-> k, reason |-> ""]
    /\ joinedAt = <<>>
    /\ leftAt = <<>>
    /\ relayPosts = 0

\* GET /agent/events: the connected comment, the backlog, then the response
\* joins `clients` and gets its heartbeat interval
GetEvents ==
    /\ Len(streams) < MaxClients
    /\ LET res == Len(streams) + 1
       IN  /\ streams' = Append(streams, <<Comment("connected")>>
                                    \o [i \in DOMAIN backlog |-> Data(backlog[i])])
           /\ clients' = clients \cup {res}
           /\ heartbeats' = heartbeats \cup {res}
           /\ joinedAt' = Append(joinedAt, Len(relayLog))
           /\ leftAt' = Append(leftAt, -1)
    /\ UNCHANGED <<setupVars, resolverVars, backlog, lastReply, relayLog, relayPosts>>

\* the interval's callback: a heartbeat comment on the stream
Heartbeat ==
    /\ \E res \in heartbeats :
          /\ Cardinality({i \in DOMAIN streams[res] : streams[res][i].kind = "heartbeat"})
                 < MaxHeartbeats
          /\ streams' = [streams EXCEPT ![res] = Append(@, Comment("heartbeat"))]
    /\ UNCHANGED <<setupVars, resolverVars, clients, backlog, heartbeats, lastReply, relayLog, joinedAt, leftAt,
                   relayPosts>>

\* the request's close event: the interval is cleared and the response
\* leaves `clients`
Close ==
    /\ \E res \in heartbeats :
          /\ heartbeats' = heartbeats \ {res}
          /\ clients' = clients \ {res}
          /\ leftAt' = IF res \in clients THEN [leftAt EXCEPT ![res] = Len(relayLog)] ELSE leftAt
    /\ UNCHANGED <<setupVars, resolverVars, backlog, streams, lastReply, relayLog, joinedAt, relayPosts>>

\* POST /agent/command, from the end of the body: 400 for a body that is no
\* JSON or has no string `action`; else the command is made, goes to the
\* backlog and is written to every client, a client whose write throws is
\* deleted, and the reply is 200 with the command's id
PostCommand ==
    /\ relayPosts < MaxPosts
    /\ relayPosts' = relayPosts + 1
    /\ \E body \in Bodies :
          IF ~body.json
            THEN /\ lastReply' = [status |-> 400, ok |-> FALSE, id |-> 0, reason |-> "Invalid JSON."]
                 /\ UNCHANGED <<clients, backlog, streams, relayLog, leftAt>>
          ELSE IF body.action = ""
            THEN /\ lastReply' = [status |-> 400, ok |-> FALSE, id |-> 0, reason |-> "Missing action."]
                 /\ UNCHANGED <<clients, backlog, streams, relayLog, leftAt>>
          ELSE LET command == Command(Len(relayLog) + 1, body.action)
               IN  /\ backlog' = addToBacklog(backlog, command)
                   /\ relayLog' = Append(relayLog, command)
                   /\ \E thrown \in SUBSET clients :
                         /\ streams' = [res \in DOMAIN streams |->
                                           IF res \in clients \ thrown
                                             THEN Append(streams[res], Data(command))
                                             ELSE streams[res]]
                         /\ clients' = clients \ thrown
                         /\ leftAt' = [res \in DOMAIN leftAt |->
                                          IF res \in thrown THEN Len(relayLog) ELSE leftAt[res]]
                   /\ lastReply' = [status |-> 200, ok |-> TRUE, id |-> command.id, reason |-> ""]
    /\ UNCHANGED <<setupVars, resolverVars, heartbeats, joinedAt>>

\* the worker before its first message
WorkerIdle ==
    /\ pc = "idle"
    /\ run = 0
    /\ posted = <<>>
    /\ rng = createRng(0)
    /\ rngDraws = 0
    /\ events = <<>>
    /\ units = <<>>
    /\ tileIndex = <<>>
    /\ projectiles = <<>>
    /\ projectileId = 0
    /\ lastActivityTick = 0
    /\ loopGuard = 0
    /\ tick = 0
    /\ activityThisTick = FALSE
    /\ impacts = <<>>
    /\ cursor = 0
    /\ result = NoResult
    /\ error = ""
    /\ history = <<>>
    /\ engine = NoEngine

Init ==
    /\ input \in Inputs
    /\ WorkerIdle
    /\ RelayAfter(0)
    /\ SetupStart

Next ==
    \/ OnMessage
    \/ ImpactStep
    \/ UnitMelee
    \/ UnitFire
    \/ UnitMove
    \/ UnitWait
    \/ EndTick
    \/ PostResult
    \/ PostError

Spec == Init /\ [][Next]_vars

\* the relay, started after one of a few numbers of commands that came while
\* no stream was open
EarlierCommands == {0, BACKLOG_LIMIT - 1, BACKLOG_LIMIT + 1}

InitRelay ==
    /\ input = MeleeScenario
    /\ WorkerIdle
    /\ \E k \in EarlierCommands : RelayAfter(k)
    /\ SetupStart

\* the page in setup mode, its worker and the relay left alone
InitSetup ==
    /\ input = MeleeScenario
    /\ WorkerIdle
    /\ RelayAfter(0)
    /\ SetupStart

NextSetup ==
    \/ SelectSide
    \/ SelectType
    \/ CanvasClick
    \/ CanvasContextMenu
    \/ PlaceUnitFromAgent
    \/ ResolveClick
    \/ WorkerAnswer
    \/ ReturnToSetup

SpecSetup == InitSetup /\ [][NextSetup]_vars

NextRelay ==
    \/ GetEvents
    \/ Heartbeat
    \/ Close
    \/ PostCommand

SpecRelay == InitRelay /\ [][NextRelay]_vars

\* the page replaying the output it got
NextReplay == Next \/ ResetReplay \/ AdvanceReplay

SpecReplay == Init /\ [][NextReplay]_vars

\* the worker answering two messages that carry the same input
NextTwice == Next \/ OnMessageAgain

SpecTwice == Init /\ [][NextTwice]_vars

\* the worker answering two messages whose inputs differ in the order of
\* the units array
NextReordered == Next \/ OnMessageReordered

SpecReordered == Init /\ [][NextReordered]_vars

-----------------------------------------------------------------------------
(* Properties *)

accepted == validateInput(input) = ""

\* resolveBattle has spawned the units and neither returned nor thrown
running == pc \in {"impact", "action", "check"}

inputIds == {input.units[i].id : i \in DOMAIN input.units}

typed(evs, type) == {i \in DOMAIN evs : evs[i].type = type}

livingAt(p) == {id \in DOMAIN units : units[id].alive /\ units[id].position = p}

sizeOf(S) == SumSeq([i \in 1..Cardinality(S) |-> units[AscendingSeq(S)[i]].size])

\* C1 (determinism): when the worker has answered two messages that carry
\* the same input, the two replies are equal: the same event log in the same
\* order and the same result, or the same error.
C1_Determinism ==
    (pc = "idle" /\ run = 2) => posted[1] = posted[2]

\* a battle in which the generator was used has been resolved twice
C1_Witness ==
    /\ pc = "idle" /\ run = 2
    /\ posted[2].type = "result"
    /\ rngDraws >= 2
    /\ typed(events, "UnitRemoved") # {}

\* C2 (tile occupancy): once an accepted input is spawned, every tile that
\* holds living units holds units of one side only, at most
\* limits.maxUnitsPerTile of them, of total size at most limits.maxSizePerTile.
C2_TileOccupancy ==
    (accepted /\ (running \/ pc = "returned")) =>
        \A id \in DOMAIN units :
            units[id].alive =>
                LET here == livingAt(units[id].position)
                IN  /\ \A other \in here : units[other].side = units[id].side
                    /\ Cardinality(here) <= input.limits.maxUnitsPerTile
                    /\ sizeOf(here) <= input.limits.maxSizePerTile

\* C3 (termination): on an accepted input resolveBattle does not throw, it
\* enters at most timeLimit + 1 ticks, the log never holds two BattleEnded
\* events, and the log returned holds exactly one, with a tick in 0..timeLimit.
C3_Termination ==
    accepted =>
        /\ pc # "threw"
        /\ loopGuard <= input.timeLimit + 1
        /\ Cardinality(typed(events, "BattleEnded")) <= 1
        /\ pc = "returned" =>
              /\ Cardinality(typed(events, "BattleEnded")) = 1
              /\ \A i \in typed(events, "BattleEnded") :
                    events[i].tick >= 0 /\ events[i].tick <= input.timeLimit

\* C4 (conservation): no unit ever leaves the unit table, no unit is the
\* subject of two UnitRemoved events, and in the output returned the number
\* of UnitRemoved events plus the survivors of both sides is the number of
\* units of the input.
C4_Conservation ==
    /\ (running \/ pc = "returned") => DOMAIN units = inputIds
    /\ \A i, j \in typed(events, "UnitRemoved") :
          events[i].payload.unitId = events[j].payload.unitId => i = j
    /\ pc = "returned" =>
          Cardinality(typed(events, "UnitRemoved"))
            + result.survivors.Red + result.survivors.Blue = Len(input.units)

\* a battle has ended with units removed and units left
C4_Witness ==
    /\ pc = "returned"
    /\ Cardinality(typed(events, "UnitRemoved")) >= 2
    /\ result.survivors.Red + result.survivors.Blue >= 1

\* C5 (ordering law): the log returned is in lexicographic (tick, seq) order.
C5_Ordering ==
    pc = "returned" =>
        \A i \in 1..(Len(events) - 1) :
            \/ events[i].tick < events[i + 1].tick
            \/ /\ events[i].tick = events[i + 1].tick
               /\ events[i].seq <= events[i + 1].seq

\* what the validation is to reject, said of the input alone
inputUnitsAt(in, p) == {i \in DOMAIN in.units : in.units[i].position = p}

badInput(in) ==
    \/ \E i, j \in DOMAIN in.units : i # j /\ in.units[i].id = in.units[j].id
    \/ \E i \in DOMAIN in.units :
          LET u == in.units[i]
              here == inputUnitsAt(in, u.position)
          IN  \/ u.size # UNIT_SIZES[u.type]
              \/ ~isWithin(u.position, in)
              \/ u.position.x < DEPLOYMENT_COLUMNS[u.side].start * Tile
              \/ u.position.x > DEPLOYMENT_COLUMNS[u.side].end * Tile
              \/ \E j \in here : in.units[j].side # u.side
              \/ Cardinality(here) > in.limits.maxUnitsPerTile
              \/ SumSeq([k \in 1..Cardinality(here) |->
                     in.units[AscendingSeq(here)[k]].size]) > in.limits.maxSizePerTile

\* C6 (input validation): on an input with a duplicate id, a wrong size, a
\* unit outside the grid or its deployment columns, or a tile (of one unit
\* or more) that mixes sides or exceeds a cap, resolveBattle emits no event
\* and simulates nothing: it throws.
C6_Validation ==
    badInput(input) =>
        /\ events = <<>>
        /\ pc \in {"idle", "threw"}
        /\ result = NoResult

\* C7 (no internal abort): on an accepted input resolveBattle never throws.
C7_NoInternalAbort ==
    accepted => pc # "threw"

\* C8 (request/response): the worker has posted one reply per message
\* answered and none for a message it is still working on; a reply is either
\* a result carrying the whole log, which ends with BattleEnded, and the
\* result returned, or an error carrying the message thrown and no output.
C8_OneReply ==
    /\ Len(posted) = run
    /\ (pc = "idle" /\ run = 1) =>
          LET reply == posted[1]
          IN  \/ /\ DOMAIN reply = {"type", "output"}
                 /\ reply.type = "result"
                 /\ error = ""
                 /\ result # NoResult
                 /\ reply.output = [input |-> input, events |-> events, result |-> result]
                 /\ events[Len(events)].type = "BattleEnded"
              \/ /\ DOMAIN reply = {"type", "message"}
                 /\ reply.type = "error"
                 /\ reply.message = error
                 /\ error # ""
                 /\ result = NoResult

\* resolveBattle threw after it had emitted events, and the reply is the error
C8_Witness ==
    /\ pc = "idle" /\ run = 1
    /\ posted[1].type = "error"
    /\ events # <<>>

\* C9 (termination priority): a result decided at the end of a tick is
\* 'eliminated' whenever a side has no living unit, also at the tick limit;
\* 'time_limit' whenever both sides live and the tick limit is reached; and
\* 'stalled' only when both sides live, the tick limit is not reached and
\* STALL_TICKS ticks have passed since the last activity.
C9_Priority ==
    (pc = "returned" /\ loopGuard >= 1) =>
        LET redLeft  == Cardinality({id \in DOMAIN units : units[id].alive /\ units[id].side = "Red"})
            blueLeft == Cardinality({id \in DOMAIN units : units[id].alive /\ units[id].side = "Blue"})
        IN  /\ (redLeft = 0 \/ blueLeft = 0) => result.reason = "eliminated"
            /\ (redLeft > 0 /\ blueLeft > 0 /\ tick >= input.timeLimit)
                  => result.reason = "time_limit"
            /\ (redLeft > 0 /\ blueLeft > 0 /\ tick < input.timeLimit)
                  => /\ result.reason = "stalled"
                     /\ tick - lastActivityTick >= STALL_TICKS

\* a side lost its last unit at the very tick of the tick limit, after tick 0
C9_Witness ==
    /\ pc = "returned"
    /\ tick = input.timeLimit
    /\ tick > 0
    /\ result.reason = "eliminated"
    /\ typed(events, "UnitRemoved") # {}

\* C10 (winner consistency): the reason is 'eliminated' exactly when a side
\* has no survivor, and then the winner is the side that has survivors, or
\* 'Draw' when neither has; with the other reasons the winner is 'Draw' and
\* both sides have survivors.
C10_Winner ==
    pc = "returned" =>
        LET red  == result.survivors.Red
            blue == result.survivors.Blue
        IN  /\ result.reason = "eliminated" <=> (red = 0 \/ blue = 0)
            /\ result.reason = "eliminated" =>
                  result.winner = IF red = 0 /\ blue = 0 THEN "Draw"
                                  ELSE IF red = 0 THEN "Blue" ELSE "Red"
            /\ result.reason \in {"time_limit", "stalled"} =>
                  result.winner = "Draw" /\ red > 0 /\ blue > 0

\* the last event of the log
lastEvent == events[Len(events)]

living(side) == {id \in DOMAIN units : units[id].alive /\ units[id].side = side}

\* C11 (terminal event): no event follows a BattleEnded event; in the output
\* returned the last event is BattleEnded, its payload is the result
\* returned, its tick is result.tick, and the survivors it carries are the
\* numbers of living Red and Blue units.
C11_TerminalEvent ==
    /\ \A i \in typed(events, "BattleEnded") : i = Len(events)
    /\ pc = "returned" =>
          /\ events # <<>>
          /\ lastEvent.type = "BattleEnded"
          /\ lastEvent.payload = result
          /\ lastEvent.tick = result.tick
          /\ lastEvent.payload.survivors.Red = Cardinality(living("Red"))
          /\ lastEvent.payload.survivors.Blue = Cardinality(living("Blue"))

\* a battle has ended after removals, with survivors on one side
C11_Witness ==
    /\ pc = "returned"
    /\ typed(events, "UnitRemoved") # {}
    /\ Cardinality(living("Red")) + Cardinality(living("Blue")) >= 1
    /\ lastEvent.type = "BattleEnded"

\* C12 (initial events): a log starts with one BattleInit event at tick 0
\* with seq 0, then one UnitSpawned event per unit of the input, at tick 0
\* and in strictly ascending id whatever the order of input.units; no other
\* BattleInit or UnitSpawned event follows.
C12_InitialEvents ==
    events # <<>> =>
        LET n == Len(input.units)
        IN  /\ Len(events) >= n + 1
            /\ events[1].type = "BattleInit" /\ events[1].tick = 0 /\ events[1].seq = 0
            /\ \A k \in 2..(n + 1) :
                  /\ events[k].type = "UnitSpawned"
                  /\ events[k].tick = 0
                  /\ events[k].payload.unit \in Range(input.units)
                  /\ k > 2 => events[k - 1].payload.unit.id < events[k].payload.unit.id
            /\ {events[k].payload.unit.id : k \in 2..(n + 1)} = inputIds
            /\ \A k \in DOMAIN events :
                  events[k].type \in {"BattleInit", "UnitSpawned"} => k <= n + 1

\* units placed in descending id have been spawned and have acted
C12_Witness ==
    /\ pc = "returned"
    /\ Len(input.units) >= 3
    /\ \A i \in 1..(Len(input.units) - 1) : input.units[i].id > input.units[i + 1].id
    /\ typed(events, "UnitMoved") # {}

\* the unit an action event is the action of
actor(e) ==
    IF e.type = "MeleeAttackResolved" THEN e.payload.attackerId
    ELSE IF e.type = "UnitMoved" THEN e.payload.unitId
    ELSE e.payload.sourceId

\* a melee attack, a shot or a move
isAction(e) == e.type \in {"MeleeAttackResolved", "ProjectileFired", "UnitMoved"}

isActionPhase(e) ==
    isAction(e) \/ (e.type = "UnitRemoved" /\ e.payload.cause = "melee")

isImpactPhase(e) ==
    \/ e.type = "ProjectileImpacted"
    \/ e.type = "UnitRemoved" /\ e.payload.cause \in {"arrow", "fireball"}

\* C13 (phase order): in the log, no impact-phase event of a tick comes after
\* an action-phase event of the same tick, and a unit removed by an impact
\* at a tick is the actor of no action event of that tick.
C13_PhaseOrder ==
    /\ \A i, j \in DOMAIN events :
          (i < j /\ events[i].tick = events[j].tick /\ isActionPhase(events[i]))
              => ~isImpactPhase(events[j])
    /\ \A i, j \in DOMAIN events :
          (/\ events[i].type = "UnitRemoved"
           /\ events[i].payload.cause \in {"arrow", "fireball"}
           /\ events[j].tick = events[i].tick
           /\ isAction(events[j]))
              => actor(events[j]) # events[i].payload.unitId

\* a unit that was ready to act was removed by an impact, and another unit
\* acted later in the same tick
C13_Witness ==
    \E i, j \in DOMAIN events :
        /\ i < j
        /\ events[i].type = "UnitRemoved"
        /\ events[i].payload.cause \in {"arrow", "fireball"}
        /\ units[events[i].payload.unitId].nextAvailableTick <= events[i].tick
        /\ events[j].tick = events[i].tick
        /\ isAction(events[j])

\* C14 (action order): along the log, the actors of the melee attacks, shots
\* and moves of one tick are strictly increasing in id, so that no unit has
\* two of them in one tick; the removal that follows a melee hit carries the
\* attacker as its source.
C14_ActionOrder ==
    /\ \A i, j \in DOMAIN events :
          (i < j /\ events[i].tick = events[j].tick /\ isAction(events[i]) /\ isAction(events[j]))
              => actor(events[i]) < actor(events[j])
    /\ \A j \in DOMAIN events :
          (events[j].type = "UnitRemoved" /\ events[j].payload.cause = "melee")
              => /\ j > 1
                 /\ events[j - 1].type = "MeleeAttackResolved"
                 /\ events[j - 1].payload.hit
                 /\ events[j - 1].payload.attackerId = events[j].payload.sourceId
                 /\ events[j - 1].payload.targetId = events[j].payload.unitId
                 /\ events[j - 1].tick = events[j].tick

\* three units acted in one tick after tick 0, a melee hit among the actions
C14_Witness ==
    \E i, j, k \in DOMAIN events :
        /\ i < j /\ j < k
        /\ events[i].tick > 0
        /\ events[i].tick = events[j].tick /\ events[j].tick = events[k].tick
        /\ isAction(events[i])
        /\ events[j].type = "UnitRemoved" /\ events[j].payload.cause = "melee"
        /\ isAction(events[k])

\* whether a unit may enter the tile at p, said of the living units alone
mayEnter(unit, p) ==
    /\ isWithin(p, input)
    /\ \/ livingAt(p) = {}
       \/ /\ \A id \in livingAt(p) : units[id].side = unit.side
          /\ Cardinality(livingAt(p)) + 1 <= input.limits.maxUnitsPerTile
          /\ sizeOf(livingAt(p)) + unit.size <= input.limits.maxSizePerTile

\* C15 (dead units): after the UnitRemoved event of a unit no later event
\* has it as the attacker or the target of a melee attack, as the source of
\* a shot, as the unit moved or as the unit removed; and for the tile of a
\* dead unit canEnterTile answers as the living units alone decide.
C15_DeadUnits ==
    /\ \A i, j \in DOMAIN events :
          (i < j /\ events[i].type = "UnitRemoved") =>
              LET u == events[i].payload.unitId
                  e == events[j]
              IN  /\ e.type = "MeleeAttackResolved" =>
                        e.payload.attackerId # u /\ e.payload.targetId # u
                  /\ e.type = "ProjectileFired" => e.payload.sourceId # u
                  /\ e.type = "UnitMoved" => e.payload.unitId # u
                  /\ e.type = "UnitRemoved" => e.payload.unitId # u
    /\ running =>
          \A d, m \in DOMAIN units :
              (~units[d].alive /\ units[m].alive) =>
                  canEnterTile(units[m], tileIndex, units, units[d].position, input)
                      = mayEnter(units[m], units[d].position)

\* a unit has moved onto the tile where an enemy was removed before, while
\* the battle goes on
C15_Witness ==
    /\ running
    /\ \E i, j \in DOMAIN events :
          /\ i < j
          /\ events[i].type = "UnitRemoved"
          /\ events[j].type = "UnitMoved"
          /\ events[j].payload.to = units[events[i].payload.unitId].position
          /\ units[events[j].payload.unitId].side # events[i].payload.side

\* the log ends with a melee hit of attacker a, the removal of its target
\* and BattleEnded
endsWithKill(a) ==
    /\ Len(events) >= 3
    /\ LET attack  == events[Len(events) - 2]
           removal == events[Len(events) - 1]
       IN  /\ attack.type = "MeleeAttackResolved"
           /\ attack.payload.attackerId = a
           /\ attack.payload.hit
           /\ removal.type = "UnitRemoved"
           /\ removal.payload.cause = "melee"
           /\ removal.payload.unitId = attack.payload.targetId
           /\ attack.tick = removal.tick
           /\ lastEvent.type = "BattleEnded"

\* C16 as the claim states it (melee scenario): for one Red infantry at
\* (0,0) and one Blue infantry at (1,0) with a first draw below 0.5,
\* resolveBattle returns a log with a melee hit, then UnitRemoved with cause
\* 'melee', then BattleEnded with winner Red and reason 'eliminated' at
\* tick 12, the attack cost of the infantry.
C16_MeleeScenario ==
    (input = MeleeScenario /\ pc \in {"returned", "threw"}) =>
        /\ pc = "returned"
        /\ endsWithKill(1)
        /\ result.winner = "Red"
        /\ result.reason = "eliminated"
        /\ result.tick = UNIT_COSTS["Infantry"].attack

\* one Red infantry (id 1) at (2,0) and one Blue infantry (id 2) at (9,0),
\* in either order, with seed 0, whose first draw is below 0.5, and a tick
\* limit of three infantry moves or more
meleeInZones ==
    /\ input.units \in { <<Roster[1], Roster[2]>>, <<Roster[2], Roster[1]>> }
    /\ input.seed = 0
    /\ input.timeLimit >= 3 * UNIT_COSTS["Infantry"].move

\* C16 as amended (melee scenario): the placement at (0,0) and (1,0) is
\* rejected with 'Unit placed outside deployment zone' before any event;
\* for the Red infantry at (2,0) and the Blue infantry at (9,0) with a first
\* draw below 0.5, the log returned ends with the melee hit of the Red
\* infantry, UnitRemoved with cause 'melee' and BattleEnded with winner Red
\* and reason 'eliminated', all three at the tick of the attack, which is
\* the tick after three moves (18), with no attack cost added.
C16_MeleeInZones ==
    /\ (input = MeleeScenario /\ pc # "idle") =>
          /\ pc = "threw"
          /\ error = "Unit placed outside deployment zone"
          /\ events = <<>>
    /\ (meleeInZones /\ pc = "returned") =>
          /\ endsWithKill(1)
          /\ belowHalf(rngStep(createRng(input.seed)))
          /\ rngDraws = 1
          /\ result.winner = "Red"
          /\ result.reason = "eliminated"
          /\ result.tick = 3 * UNIT_COSTS["Infantry"].move
          /\ events[Len(events) - 2].tick = result.tick
          /\ result.survivors = [Red |-> 1, Blue |-> 0]

\* the battle of the two infantries has been resolved
C16_Witness ==
    /\ meleeInZones
    /\ pc = "returned"
    /\ typed(events, "MeleeAttackResolved") # {}

\* C17 (one-sided start): when a side has no unit in the input, the output
\* returned ends the battle at tick 0 with reason 'eliminated', the winner
\* is the side that has units, 'Draw' when there is no unit at all, and the
\* log holds no UnitMoved, MeleeAttackResolved, ProjectileFired or
\* UnitRemoved event.
C17_OneSidedStart ==
    LET reds  == {i \in DOMAIN input.units : input.units[i].side = "Red"}
        blues == {i \in DOMAIN input.units : input.units[i].side = "Blue"}
    IN  (pc = "returned" /\ (reds = {} \/ blues = {})) =>
            /\ result.tick = 0
            /\ lastEvent.tick = 0
            /\ result.reason = "eliminated"
            /\ result.winner = IF reds = {} /\ blues = {} THEN "Draw"
                               ELSE IF reds = {} THEN "Blue" ELSE "Red"
            /\ \A i \in DOMAIN events :
                  events[i].type \in {"BattleInit", "UnitSpawned", "BattleEnded"}

\* no unit has attacked, shot or moved and no projectile has impacted
noActivity == \A i \in DOMAIN events : ~isActionPhase(events[i]) /\ ~isImpactPhase(events[i])

\* C18 (stall scenario): with a tick limit above STALL_TICKS, a battle in
\* which both sides have living units and nothing happens from tick 0 on is
\* still running up to tick STALL_TICKS and no further, and it returns at
\* tick STALL_TICKS with reason 'stalled' and winner 'Draw'.
C18_Stall ==
    (/\ input.timeLimit > STALL_TICKS /\ noActivity
     /\ living("Red") # {} /\ living("Blue") # {}) =>
        /\ running => tick <= STALL_TICKS
        /\ pc = "returned" =>
              /\ result.reason = "stalled"
              /\ result.winner = "Draw"
              /\ result.tick = STALL_TICKS
              /\ lastEvent.tick = STALL_TICKS

\* two units that can never meet have been left alone until the battle ended
C18_Witness ==
    /\ pc = "returned"
    /\ input.timeLimit > STALL_TICKS
    /\ noActivity
    /\ living("Red") # {} /\ living("Blue") # {}
    /\ loopGuard = STALL_TICKS + 1

\* C19 (time limit): a result with reason 'time_limit' is a Draw whose tick
\* is the tick limit of the input; when both sides have living units at the
\* end of the tick equal to the tick limit, the result is that one; and the
\* loop never enters a tick after the tick limit.
C19_TimeLimit ==
    /\ (pc = "returned" /\ result.reason = "time_limit") =>
          /\ result.tick = input.timeLimit
          /\ result.winner = "Draw"
          /\ lastEvent.tick = input.timeLimit
    /\ (/\ pc = "returned" /\ loopGuard >= 1 /\ tick = input.timeLimit
        /\ living("Red") # {} /\ living("Blue") # {}) =>
          /\ result.reason = "time_limit"
          /\ result.tick = input.timeLimit
    /\ (pc = "returned" /\ result.reason # "time_limit" /\ input.timeLimit >= 0) =>
          result.tick <= input.timeLimit
    /\ (running \/ pc = "returned") =>
          /\ loopGuard >= 1 => tick <= input.timeLimit
          /\ loopGuard <= IF input.timeLimit >= 0 THEN input.timeLimit + 1 ELSE 0

\* a battle in which units moved and fought has run into its tick limit
C19_Witness ==
    /\ pc = "returned"
    /\ result.reason = "time_limit"
    /\ input.timeLimit > 0
    /\ tick = input.timeLimit
    /\ typed(events, "UnitRemoved") # {}

\* the units of a side that the engine shows alive
shownAlive(side) ==
    {id \in DOMAIN engine.units : engine.units[id].alive /\ engine.units[id].side = side}

\* C20 (replay fidelity): when the engine stands at a tick T of 0..result.tick
\* it holds the units the resolver had at the end of tick T, each with the
\* same alive flag and the same position, and it is the engine that reset()
\* and advanceTo(T) make from the log alone; at result.tick the units it
\* shows alive are, side by side, as many as result.survivors.
C20_ReplayFidelity ==
    (engine.made /\ engine.currentTick >= 0 /\ engine.currentTick <= result.tick) =>
        LET T == engine.currentTick
            resolved == history[T + 1]
        IN  /\ DOMAIN engine.units = DOMAIN resolved
            /\ \A id \in DOMAIN resolved :
                  /\ engine.units[id].alive = resolved[id].alive
                  /\ engine.units[id].position = resolved[id].position
                  /\ engine.units[id].side = resolved[id].side
            /\ engine = advanceTo(reset(ReplayEngine(posted[1].output)), T)
            /\ T = result.tick =>
                  /\ Cardinality(shownAlive("Red")) = result.survivors.Red
                  /\ Cardinality(shownAlive("Blue")) = result.survivors.Blue
                  /\ engine.result = result

\* the engine has been advanced, in jumps of several ticks, to the last tick
\* of a battle in which units moved and units were removed
C20_Witness ==
    /\ engine.made
    /\ engine.currentTick = result.tick
    /\ result.tick >= MaxFrameTicks
    /\ \E id \in DOMAIN engine.units : ~engine.units[id].alive
    /\ \E id \in DOMAIN engine.units :
          /\ engine.units[id].alive
          /\ engine.units[id].position # spawnedUnits(input)[id].position

\* the living enemies of unit u at Manhattan distance d (in halves of a tile)
enemiesAt(u, d) ==
    {id \in DOMAIN units :
        /\ units[id].alive
        /\ units[id].side # u.side
        /\ manhattan(u.position, units[id].position) = d}

\* the events a step adds to the log
added == SubSeq(events', Len(events) + 1, Len(events'))

\* C21 (melee policy): a step that evaluates an Infantry or Cavalry unit
\* with a living enemy at distance 1 makes one draw, adds one
\* MeleeAttackResolved event against the lowest-id such enemy, followed by
\* UnitRemoved with cause 'melee' exactly when the draw is below 0.5, removes
\* the target exactly then, sets the attacker's nextAvailableTick to tick +
\* attack cost and leaves every position and every other unit as it was.
C21_MeleePolicy ==
    [][ (/\ pc = "action"
         /\ units[actingId].type \in {"Infantry", "Cavalry"}
         /\ enemiesAt(units[actingId], Tile) # {}) =>
            LET a      == units[actingId]
                near   == enemiesAt(a, Tile)
                target == CHOOSE id \in near : \A other \in near : id <= other
                hit    == rngStep(rng)[1] < 32768
            IN  /\ rngDraws' = rngDraws + 1
                /\ rng' = rngStep(rng)
                /\ Len(added) = IF hit THEN 2 ELSE 1
                /\ added[1].type = "MeleeAttackResolved"
                /\ added[1].tick = tick
                /\ added[1].payload = [attackerId |-> a.id, targetId |-> target, hit |-> hit]
                /\ hit => /\ added[2].type = "UnitRemoved"
                          /\ added[2].tick = tick
                          /\ added[2].payload.unitId = target
                          /\ added[2].payload.cause = "melee"
                          /\ added[2].payload.sourceId = a.id
                /\ units'[target].alive = ~hit
                /\ units'[a.id].nextAvailableTick = tick + UNIT_COSTS[a.type].attack
                /\ \A id \in DOMAIN units :
                      /\ units'[id].position = units[id].position
                      /\ id \notin {a.id, target} => units'[id] = units[id]
                /\ tick' = tick
      ]_vars

\* a melee attack has just removed the lower of two enemies next to the
\* attacker, after an earlier attack of the battle has missed
C21_Witness ==
    /\ events # <<>>
    /\ lastEvent.type = "UnitRemoved"
    /\ lastEvent.payload.cause = "melee"
    /\ \E id \in enemiesAt(units[lastEvent.payload.sourceId], Tile) :
          id > lastEvent.payload.unitId
    /\ \E i \in typed(events, "MeleeAttackResolved") : ~events[i].payload.hit

\* C22 (ranged fire): a step that adds a ProjectileFired event is the
\* evaluation of a living ready Archer (Arrow) or Mage (Fireball); the target
\* tile then holds a living enemy, at a distance d between
\* MIN_RANGED_DISTANCE and the range (5 and 6 tiles); the event carries
\* distance d and impactTick = fireTick + speed * d (2 and 3 ticks a tile),
\* the shooter's nextAvailableTick becomes fireTick + attack cost; and a
\* ranged unit with a living enemy in range fires and does not move.
C22_RangedFire ==
    [][ /\ \A i \in DOMAIN added : added[i].type = "ProjectileFired" =>
              LET e == added[i].payload
                  a == units[e.sourceId]
                  d == manhattan(a.position, e.target)
                  reach == IF a.type = "Archer" THEN 5 ELSE 6
                  speed == IF e.projectile = "Arrow" THEN 2 ELSE 3
              IN  /\ pc = "action" /\ actingId = e.sourceId /\ Len(added) = 1
                  /\ a.alive /\ a.nextAvailableTick <= tick
                  /\ \/ a.type = "Archer" /\ e.projectile = "Arrow"
                     \/ a.type = "Mage" /\ e.projectile = "Fireball"
                  /\ e.sourceSide = a.side /\ e.from = a.position
                  /\ \E id \in enemiesAt(a, d) : units[id].position = e.target
                  /\ MIN_RANGED_DISTANCE * Tile <= d /\ d <= reach * Tile
                  /\ e.distance = d
                  /\ e.fireTick = tick /\ added[i].tick = tick
                  /\ e.impactTick = e.fireTick * Tile + speed * d
                  /\ units'[a.id] = [a EXCEPT !.nextAvailableTick =
                                        tick + IF a.type = "Archer" THEN 14 ELSE 16]
                  /\ \E j \in DOMAIN projectiles' :
                        /\ j \notin DOMAIN projectiles
                        /\ projectiles'[j].impactTick = e.impactTick
                        /\ projectiles'[j].target = e.target
        /\ (/\ pc = "action"
            /\ units[actingId].type \in {"Archer", "Mage"}
            /\ \E d \in 1 * Tile .. Tile * (IF units[actingId].type = "Archer" THEN 5 ELSE 6) :
                  enemiesAt(units[actingId], d) # {}) =>
              /\ Len(added) = 1
              /\ added[1].type = "ProjectileFired"
              /\ added[1].payload.sourceId = actingId
              /\ units'[actingId].position = units[actingId].position
      ]_vars

\* a Mage has just fired at the limit of its range, after an Archer's
\* arrow was fired in the same battle
C22_Witness ==
    /\ events # <<>>
    /\ lastEvent.type = "ProjectileFired"
    /\ lastEvent.payload.projectile = "Fireball"
    /\ lastEvent.payload.distance = 6 * Tile
    /\ \E i \in typed(events, "ProjectileFired") : events[i].payload.projectile = "Arrow"

\* the tiles that hold a living enemy of unit u within `reach` tiles
tilesInRange(u, reach) ==
    {units[id].position : id \in UNION {enemiesAt(u, d) : d \in 1 * Tile .. reach * Tile}}

\* C23 (archer target): the tile of every Arrow fired is, among the tiles
\* that hold a living enemy within 5 tiles of the Archer, the nearest one, of
\* the nearest ones the one of the smallest row, and of those the one of the
\* smallest column: a function of the set of tiles alone.
C23_ArcherTarget ==
    [][ \A i \in DOMAIN added :
          (added[i].type = "ProjectileFired" /\ added[i].payload.projectile = "Arrow") =>
              LET a == units[added[i].payload.sourceId]
                  chosen == added[i].payload.target
                  key(p) == <<manhattan(a.position, p), p.y, p.x>>
              IN  /\ chosen \in tilesInRange(a, 5)
                  /\ \A p \in tilesInRange(a, 5) : p # chosen => LexLess(key(chosen), key(p))
      ]_vars

\* an Archer has just fired at one of two equally near tiles, the one of
\* the smaller row and the larger column, held by the enemy of the higher id
C23_Witness ==
    /\ events # <<>>
    /\ lastEvent.type = "ProjectileFired"
    /\ lastEvent.payload.projectile = "Arrow"
    /\ \E p \in tilesInRange(units[lastEvent.payload.sourceId], 5) :
          /\ manhattan(p, lastEvent.payload.from) = lastEvent.payload.distance
          /\ p.y > lastEvent.payload.target.y
          /\ p.x < lastEvent.payload.target.x
          /\ \E id \in livingAt(p) : \A other \in livingAt(lastEvent.payload.target) : id < other

\* the living enemies of unit u on tile p
enemiesOn(u, p) == {id \in livingAt(p) : units[id].side # u.side}

\* C24 (mage target): the tile of every Fireball fired is, among the tiles
\* that hold a living enemy within 6 tiles of the Mage, the one with the most
\* living enemies, of those the nearest, then the one of the smallest row,
\* then of the smallest column.
C24_MageTarget ==
    [][ \A i \in DOMAIN added :
          (added[i].type = "ProjectileFired" /\ added[i].payload.projectile = "Fireball") =>
              LET a == units[added[i].payload.sourceId]
                  chosen == added[i].payload.target
                  key(p) == <<0 - Cardinality(enemiesOn(a, p)), manhattan(a.position, p), p.y, p.x>>
              IN  /\ chosen \in tilesInRange(a, 6)
                  /\ \A p \in tilesInRange(a, 6) : p # chosen => LexLess(key(chosen), key(p))
      ]_vars

\* a Mage has just fired at a tile of two enemies and passed over a nearer
\* tile of one enemy
C24_Witness ==
    /\ events # <<>>
    /\ lastEvent.type = "ProjectileFired"
    /\ lastEvent.payload.projectile = "Fireball"
    /\ LET a == units[lastEvent.payload.sourceId]
       IN  /\ Cardinality(enemiesOn(a, lastEvent.payload.target)) = 2
           /\ \E p \in tilesInRange(a, 6) :
                 manhattan(a.position, p) < lastEvent.payload.distance

\* the ids the tile index holds for the tile at p
indexed(ti, p) == IF tileHas(ti, tileKey(p)) THEN Range(tileGet(ti, tileKey(p))) ELSE {}

\* C25 (movement): a step that adds a UnitMoved event is the evaluation of
\* that unit, adds nothing else, and the unit has no attack and no shot of
\* its own at this tick; 'from' is the unit's position before, 'to' is inside
\* the grid at distance 1 from 'from' and could be entered just before the
\* move; and when the move completes the unit stands on 'to', the tile index
\* holds it for 'to' and no longer for 'from', and its nextAvailableTick is
\* tick + move cost.
C25_Movement ==
    [][ \A i \in DOMAIN added : added[i].type = "UnitMoved" =>
          LET e == added[i].payload
              u == units[e.unitId]
          IN  /\ pc = "action" /\ actingId = e.unitId /\ Len(added) = 1
              /\ added[i].tick = tick
              /\ \A k \in DOMAIN events :
                    (events[k].tick = tick /\ isAction(events[k])) => actor(events[k]) # u.id
              /\ e.from = u.position
              /\ manhattan(e.from, e.to) = 1 * Tile
              /\ isWithin(e.to, input)
              /\ mayEnter(u, e.to)
              /\ canEnterTile(u, tileIndex, units, e.to, input)
              /\ pc' # "threw" =>
                    /\ units'[u.id] = [u EXCEPT !.position = e.to,
                                                !.nextAvailableTick =
                                                    tick + IF u.type = "Cavalry" THEN 4 ELSE 6]
                    /\ u.id \in indexed(tileIndex', e.to)
                    /\ u.id \notin indexed(tileIndex', e.from)
                    /\ u.id \in indexed(tileIndex, e.from)
                    /\ \A id \in DOMAIN units : id # u.id => units'[id] = units[id]
      ]_vars

\* a unit has just moved onto a tile where a living unit of its side
\* stands, and the battle goes on
C25_Witness ==
    /\ events # <<>>
    /\ lastEvent.type = "UnitMoved"
    /\ running
    /\ units[lastEvent.payload.unitId].position = lastEvent.payload.to
    /\ Cardinality(livingAt(lastEvent.payload.to)) >= 2

\* the cost in ticks of the action an event records
costOf(e) ==
    LET type == units[actor(e)].type
    IN  IF e.type = "UnitMoved" THEN (IF type = "Cavalry" THEN 4 ELSE 6)
        ELSE IF type = "Archer" THEN 14
        ELSE IF type = "Mage" THEN 16
        ELSE 12

\* C26 (readiness): the evaluation of a unit at tick T that completes sets
\* its nextAvailableTick to T + the cost of what it did (the attack or move
\* cost of its event, 1 for a wait), which is above T, and a wait adds no
\* event and changes nothing else; when the tick advances, and while a tick's
\* impacts are pending, every living unit has nextAvailableTick >= that tick;
\* and two actions of one unit in the log are at least the cost of the
\* earlier one apart.
C26_Readiness ==
    /\ [][ (pc = "action" /\ pc' # "threw") =>
              LET u == units[actingId]
                  cost == IF added = <<>> THEN 1 ELSE costOf(added[1])
              IN  /\ u.alive /\ u.nextAvailableTick <= tick
                  /\ units'[u.id].nextAvailableTick = tick + cost
                  /\ units'[u.id].nextAvailableTick > tick
                  /\ added # <<>> => isAction(added[1]) /\ actor(added[1]) = u.id
                  /\ added = <<>> =>
                        /\ units' = [units EXCEPT ![u.id].nextAvailableTick = tick + 1]
                        /\ tileIndex' = tileIndex /\ rng' = rng /\ projectiles' = projectiles
                  /\ \A id \in DOMAIN units : id # u.id =>
                        units'[id].nextAvailableTick = units[id].nextAvailableTick
          ]_vars
    /\ [][ tick' # tick =>
              \A id \in DOMAIN units' : units'[id].alive => units'[id].nextAvailableTick >= tick'
          ]_vars
    /\ [](pc = "impact" =>
            \A id \in DOMAIN units : units[id].alive => units[id].nextAvailableTick >= tick)
    /\ [](\A i, j \in DOMAIN events :
            (i < j /\ isAction(events[i]) /\ isAction(events[j])
                /\ actor(events[i]) = actor(events[j])) =>
                    events[j].tick - events[i].tick >= costOf(events[i]))

\* at the end of a tick one unit has waited (it is ready again at the next
\* tick) and the same unit has acted earlier in the battle
C26_Witness ==
    /\ pc = "check"
    /\ \E id \in DOMAIN units :
          /\ units[id].alive
          /\ units[id].nextAvailableTick = tick + 1
          /\ \E k \in DOMAIN events : isAction(events[k]) /\ actor(events[k]) = id

\* the ProjectileImpacted events of the log that carry the source id, side,
\* kind, impactTick and target tile of the ProjectileFired event at i
impactsOf(i) ==
    {j \in typed(events, "ProjectileImpacted") :
        /\ events[j].payload.sourceId = events[i].payload.sourceId
        /\ events[j].payload.sourceSide = events[i].payload.sourceSide
        /\ events[j].payload.projectile = events[i].payload.projectile
        /\ events[j].payload.impactTick = events[i].payload.impactTick
        /\ events[j].payload.target = events[i].payload.target}

\* C27 (projectile lifecycle), as stated: in the output returned every
\* ProjectileFired event has exactly one ProjectileImpacted event with the
\* same source id, side, kind, impactTick and target tile, at the tick equal
\* to its impactTick.
C27_Lifecycle ==
    pc = "returned" =>
        \A i \in typed(events, "ProjectileFired") :
            /\ Cardinality(impactsOf(i)) = 1
            /\ \A j \in impactsOf(i) : events[j].tick * Tile = events[i].payload.impactTick

\* whether the loop has run the impact phase of the tick t (in half ticks)
impactPhaseDone(t) ==
    /\ t % Tile = 0
    /\ \/ pc \in {"action", "check"} /\ t <= tick * Tile
       \/ pc = "impact" /\ t < tick * Tile
       \/ pc = "impact" /\ t = tick * Tile /\ \A k \in DOMAIN impacts : impacts[k].impactTick # t
       \/ pc = "returned" /\ t <= result.tick * Tile

\* C27 (projectile lifecycle), amended: every ProjectileImpacted event
\* follows a ProjectileFired event with the same source id, side, kind,
\* impactTick and target tile, at the tick equal to that impactTick; no
\* ProjectileFired event has two of them; and it has one as soon as the loop
\* has run the impact phase of a tick equal to its impactTick.
C27_LifecycleReached ==
    /\ \A i \in typed(events, "ProjectileFired") :
          /\ Cardinality(impactsOf(i)) <= 1
          /\ \A j \in impactsOf(i) :
                j > i /\ events[j].tick * Tile = events[i].payload.impactTick
          /\ impactPhaseDone(events[i].payload.impactTick) => impactsOf(i) # {}
          /\ \A k \in typed(events, "ProjectileFired") :
                (k # i /\ events[k].payload.sourceId = events[i].payload.sourceId) =>
                    events[k].payload.impactTick # events[i].payload.impactTick
    /\ \A j \in typed(events, "ProjectileImpacted") :
          \E i \in typed(events, "ProjectileFired") : j \in impactsOf(i)

\* a battle has ended with one projectile landed and another still in
\* flight
C27_Witness ==
    /\ pc = "returned"
    /\ \E i, k \in typed(events, "ProjectileFired") :
          /\ impactsOf(i) # {}
          /\ impactsOf(k) = {}
          /\ events[k].payload.impactTick > result.tick * Tile

\* the living units on tile p of the side opposed to `side`
foesOn(p, side) == {id \in livingAt(p) : units[id].side # side}

\* C28 (arrow impact): a step that adds the ProjectileImpacted event of an
\* Arrow adds, when the target tile holds living units of the side opposed
\* to the shooter's, one UnitRemoved event with cause 'arrow' for one of
\* them, makes one draw and removes that unit and no other; when it holds
\* none it adds nothing more, makes no draw and removes nobody.
C28_ArrowImpact ==
    [][ (added # <<>> /\ added[1].type = "ProjectileImpacted"
            /\ added[1].payload.projectile = "Arrow") =>
          LET e == added[1].payload
              foes == foesOn(e.target, e.sourceSide)
          IN  IF foes = {}
                THEN /\ Len(added) = 1
                     /\ units' = units
                     /\ rngDraws' = rngDraws /\ rng' = rng
                ELSE /\ Len(added) = 2
                     /\ added[2].type = "UnitRemoved"
                     /\ added[2].tick = added[1].tick
                     /\ added[2].payload.cause = "arrow"
                     /\ added[2].payload.sourceId = e.sourceId
                     /\ added[2].payload.unitId \in foes
                     /\ added[2].payload.side # e.sourceSide
                     /\ units' = [units EXCEPT ![added[2].payload.unitId].alive = FALSE]
                     /\ rngDraws' = rngDraws + 1 /\ rng' = rngStep(rng)
      ]_vars

\* an Arrow has just removed one of two enemies on its target tile, and
\* the other one stands there alive
C28_Witness ==
    /\ events # <<>>
    /\ lastEvent.type = "UnitRemoved"
    /\ lastEvent.payload.cause = "arrow"
    /\ ~units[lastEvent.payload.unitId].alive
    /\ \E id \in livingAt(units[lastEvent.payload.unitId].position) :
          units[id].side = lastEvent.payload.side

\* C29 (fireball impact): a step that adds the ProjectileImpacted event of
\* a Fireball adds after it one UnitRemoved event with cause 'fireball' for
\* every living unit of the side opposed to the shooter's on the target
\* tile, in ascending unit id, removes those units, makes no draw, and
\* leaves every other unit as it was.
C29_FireballImpact ==
    [][ (added # <<>> /\ added[1].type = "ProjectileImpacted"
            /\ added[1].payload.projectile = "Fireball") =>
          LET e == added[1].payload
              foes == foesOn(e.target, e.sourceSide)
              ordered == AscendingSeq(foes)
          IN  /\ Len(added) = 1 + Cardinality(foes)
              /\ \A k \in DOMAIN ordered :
                    /\ added[k + 1].type = "UnitRemoved"
                    /\ added[k + 1].tick = added[1].tick
                    /\ added[k + 1].payload.unitId = ordered[k]
                    /\ added[k + 1].payload.cause = "fireball"
                    /\ added[k + 1].payload.sourceId = e.sourceId
                    /\ added[k + 1].payload.side = units[ordered[k]].side
              /\ units' = [id \in DOMAIN units |->
                              IF id \in foes THEN [units[id] EXCEPT !.alive = FALSE]
                              ELSE units[id]]
              /\ rngDraws' = rngDraws /\ rng' = rng
      ]_vars

\* a Fireball has just removed two units of one tile, in ascending id, and
\* a unit of the other side is alive
C29_Witness ==
    /\ Len(events) > 2
    /\ lastEvent.type = "UnitRemoved"
    /\ lastEvent.payload.cause = "fireball"
    /\ events[Len(events) - 1].type = "UnitRemoved"
    /\ events[Len(events) - 1].payload.cause = "fireball"
    /\ events[Len(events) - 1].payload.unitId < lastEvent.payload.unitId
    /\ units[events[Len(events) - 1].payload.unitId].position =
          units[lastEvent.payload.unitId].position
    /\ \E id \in DOMAIN units : units[id].alive /\ units[id].side # lastEvent.payload.side

\* whether the projectile q has its ProjectileImpacted event in the log
landed(q) ==
    \E j \in typed(events, "ProjectileImpacted") :
        /\ events[j].payload.sourceId = q.sourceId
        /\ events[j].payload.impactTick = q.impactTick
        /\ events[j].payload.target = q.target

\* the projectiles due at the current tick
dueNow == {q \in Range(projectiles) : q.impactTick = tick * Tile}

\* C30 (impact order): a step that adds a ProjectileImpacted event is a step
\* of the impact phase of the tick equal to the impactTick, for the
\* projectile that is first by (source id, projectile id) among those due at
\* this tick and not yet landed; it adds that one impact event and then only
\* the removals of this impact, each of a unit that was alive just before
\* the step; and when the action phase runs, every projectile due at the
\* tick has landed.
C30_ImpactOrder ==
    /\ [][ \A i \in DOMAIN added : added[i].type = "ProjectileImpacted" =>
              LET e == added[i].payload
                  mine == {q \in dueNow : q.sourceId = e.sourceId /\ q.target = e.target
                                             /\ q.kind = e.projectile}
              IN  /\ pc = "impact" /\ i = 1
                  /\ e.impactTick = tick * Tile /\ added[i].tick = tick
                  /\ \E q \in mine :
                        /\ ~landed(q)
                        /\ \A other \in dueNow :
                              (other # q /\ ~landed(other)) =>
                                  LexLess(<<q.sourceId, q.id>>, <<other.sourceId, other.id>>)
                  /\ \A k \in 2..Len(added) :
                        /\ added[k].type = "UnitRemoved"
                        /\ added[k].payload.cause \in {"arrow", "fireball"}
                        /\ added[k].payload.sourceId = e.sourceId
                        /\ units[added[k].payload.unitId].alive
                        /\ units[added[k].payload.unitId].position = e.target
                        /\ ~units'[added[k].payload.unitId].alive
          ]_vars
    /\ [](pc \in {"action", "check"} => \A q \in dueNow : landed(q))

\* two projectiles have landed on one tile at one tick: the first removed
\* a unit, the second found the tile without enemies and removed nobody
C30_Witness ==
    \E i, j \in typed(events, "ProjectileImpacted") :
        /\ i < j /\ j = Len(events)
        /\ pc # "impact"
        /\ events[i].tick = events[j].tick
        /\ events[i].payload.target = events[j].payload.target
        /\ events[i].payload.sourceSide = events[j].payload.sourceSide
        /\ events[i].payload.sourceId < events[j].payload.sourceId
        /\ events[i + 1].type = "UnitRemoved"

\* whether an event that counts as activity is in the log at tick t
active(t) ==
    \E i \in DOMAIN events :
        /\ events[i].tick = t
        /\ events[i].type \in {"UnitMoved", "MeleeAttackResolved", "ProjectileFired",
                                "ProjectileImpacted", "UnitRemoved"}

\* STALL_TICKS consecutive ticks that end at tick t have had no activity
idleRun(t) == \A k \in t - STALL_TICKS + 1 .. t : k >= 0 /\ ~active(k)

\* the ticks the loop has completed without returning
passedTicks ==
    IF running THEN 0 .. tick - 1
    ELSE IF pc = "returned" THEN 0 .. result.tick - 1
    ELSE {}

\* C31 (stall rule), as stated: while the loop runs, the current tick has
\* activity registered exactly when an activity event of this tick is in the
\* log; no tick the loop has gone past closes STALL_TICKS idle ticks in a
\* row; and a 'stalled' result is a Draw at a tick that does.
C31_StallRule ==
    /\ running => (activityThisTick <=> active(tick))
    /\ \A t \in passedTicks : ~idleRun(t)
    /\ (pc = "returned" /\ result.reason = "stalled") =>
          /\ result.winner = "Draw"
          /\ idleRun(result.tick)

\* the last tick up to t with activity, 0 when there is none
lastActive(t) ==
    LET ticks == {k \in 0 .. t : active(k)} \cup {0}
    IN  CHOOSE k \in ticks : \A other \in ticks : other <= k

\* C31 (stall rule), amended: activity is registered as the claim says; the
\* idle ticks are counted from the last active tick, or from tick 0 when no
\* tick has been active: no tick the loop has gone past is STALL_TICKS or
\* more after it, a 'stalled' result is a Draw at a tick that is, with both
\* sides alive and the tick limit not reached, and any other result at such
\* a tick is an elimination or the time limit.
C31_StallFromLastActivity ==
    /\ running => (activityThisTick <=> active(tick))
    /\ \A t \in passedTicks : t - lastActive(t) < STALL_TICKS
    /\ (pc = "returned" /\ result.reason = "stalled") =>
          /\ result.winner = "Draw"
          /\ result.tick - lastActive(result.tick) >= STALL_TICKS
          /\ result.tick = lastActive(result.tick) + STALL_TICKS
          /\ result.tick < input.timeLimit
          /\ living("Red") # {} /\ living("Blue") # {}
    /\ (pc = "returned" /\ result.reason # "stalled" /\ result.tick >= 0
            /\ result.tick - lastActive(result.tick) >= STALL_TICKS) =>
          \/ living("Red") = {} \/ living("Blue") = {}
          \/ result.tick >= input.timeLimit

\* a battle has ended as stalled STALL_TICKS ticks after its last activity,
\* which came after tick 0
C31_Witness ==
    /\ pc = "returned"
    /\ result.reason = "stalled"
    /\ lastActive(result.tick) > 0
    /\ result.tick = lastActive(result.tick) + STALL_TICKS

\* whether a sequence of ids is in ascending order
isAscending(ids) == \A i, j \in DOMAIN ids : i < j => ids[i] < ids[j]

\* C32 (occupant order): while a battle runs, the living units that
\* getTileUnits lists for the tile of any unit are in ascending id order.
C32_OccupantOrder ==
    running =>
        \A id \in DOMAIN units :
            isAscending(livingOn(tileIndex, units, units[id].position))

\* C32, the arrow's pick: the unit an Arrow removes is the one at the drawn
\* index of the id-ordered living enemies of its target tile
C32_ArrowPick ==
    [][ (Len(added) = 2 /\ added[1].type = "ProjectileImpacted"
            /\ added[1].payload.projectile = "Arrow") =>
          LET e == added[1].payload
              ordered == AscendingSeq(foesOn(e.target, e.sourceSide))
          IN  added[2].payload.unitId = ordered[nextInt(rngStep(rng), Len(ordered)) + 1]
      ]_vars

\* the positions canEnterTile is asked about: the grid in half tiles and a
\* border of one tile around it
probes ==
    {Pos(x, y) : x \in 0 - Tile .. (input.grid.width + 1) * Tile,
                 y \in 0 - Tile .. (input.grid.height + 1) * Tile}

\* C33 (canEnterTile): while a battle runs, for every unit and every
\* position canEnterTile is true exactly when the position is inside the grid
\* and either no living unit stands on it, or every living unit on it has the
\* unit's side, their number plus one is at most maxUnitsPerTile and their
\* sizes plus the unit's size are at most maxSizePerTile.
C33_CanEnterTile ==
    running =>
        \A id \in DOMAIN units : \A p \in probes :
            canEnterTile(units[id], tileIndex, units, p, input) <=>
                /\ 0 <= p.x /\ p.x < input.grid.width * Tile
                /\ 0 <= p.y /\ p.y < input.grid.height * Tile
                /\ \/ livingAt(p) = {}
                   \/ /\ \A other \in livingAt(p) : units[other].side = units[id].side
                      /\ Cardinality(livingAt(p)) + 1 <= input.limits.maxUnitsPerTile
                      /\ sizeOf(livingAt(p)) + units[id].size <= input.limits.maxSizePerTile

\* a unit may not enter a tile of its own side for the size cap alone, and
\* may enter another tile where a unit of its side stands
C33_Witness ==
    /\ running
    /\ \E id \in DOMAIN units : \E p, q \in probes :
          /\ units[id].alive
          /\ ~canEnterTile(units[id], tileIndex, units, p, input)
          /\ livingAt(p) # {}
          /\ \A other \in livingAt(p) : units[other].side = units[id].side
          /\ Cardinality(livingAt(p)) + 1 <= input.limits.maxUnitsPerTile
          /\ canEnterTile(units[id], tileIndex, units, q, input)
          /\ livingAt(q) # {}

\* the four tiles next to p, in the order +x, -x, +y, -y
around(p) ==
    << Pos(p.x + Tile, p.y), Pos(p.x - Tile, p.y), Pos(p.x, p.y + Tile), Pos(p.x, p.y - Tile) >>

\* the tiles next to a living enemy of u that u may enter
goals(u) ==
    {p \in UNION {Range(around(units[id].position)) :
                     id \in {e \in DOMAIN units : units[e].alive /\ units[e].side # u.side}} :
        mayEnter(u, p)}

\* the tiles one step from a tile of `near` that u may enter
oneStep(u, near) == {p \in UNION {Range(around(q)) : q \in near} : mayEnter(u, p)}

\* the tiles u reaches from the set `from` in at most k steps through tiles
\* it may enter
RECURSIVE within(_, _, _)
within(u, from, k) ==
    IF k = 0 THEN from ELSE within(u, from \cup oneStep(u, from), k - 1)

\* The length of the shortest walk of at least one step from u's tile to a
\* tile of `to` through tiles u may enter, 0 when there is none: `near` is
\* what k steps reach.
RECURSIVE walk(_, _, _, _)
walk(u, to, near, k) ==
    IF (near \ {u.position}) \cap to # {} THEN k
    ELSE IF oneStep(u, near) \subseteq near THEN 0
    ELSE walk(u, to, near \cup oneStep(u, near), k + 1)

shortest(u) == walk(u, goals(u), {u.position}, 0)

\* Breadth-first search level by level: `level` is the sequence of tiles at
\* one distance, in visiting order, each with the first step that led to it;
\* `seen` is the set of tiles of this and of earlier levels.
RECURSIVE firstStepFrom(_, _, _, _)
firstStepFrom(u, to, level, seen) ==
    LET hits == {i \in DOMAIN level : level[i].pos # u.position /\ level[i].pos \in to}
        found == CHOOSE i \in hits : \A other \in hits : i <= other
        \* every neighbour of every tile of the level, in visiting order
        tries == [n \in 1 .. 4 * Len(level) |->
                    LET node == level[((n - 1) \div 4) + 1]
                        nb   == around(node.pos)[((n - 1) % 4) + 1]
                    IN  [pos |-> nb,
                         first |-> IF node.first = NoPos THEN nb ELSE node.first]]
        fresh == {n \in DOMAIN tries :
                    /\ tries[n].pos \notin seen
                    /\ mayEnter(u, tries[n].pos)
                    /\ \A m \in DOMAIN tries : m < n => tries[m].pos # tries[n].pos}
        next == [k \in 1 .. Cardinality(fresh) |-> tries[AscendingSeq(fresh)[k]]]
    IN  IF level = <<>> THEN NoPos
        ELSE IF hits # {} THEN level[found].first
        ELSE firstStepFrom(u, to, next, seen \cup {tries[n].pos : n \in fresh})

\* whether the action loop asks findMoveStep for the unit it looks at
asksForStep ==
    /\ pc = "action"
    /\ units[actingId].type \in {"Infantry", "Cavalry"} => enemiesAt(units[actingId], Tile) = {}
    /\ units[actingId].type = "Archer" => tilesInRange(units[actingId], 5) = {}
    /\ units[actingId].type = "Mage" => tilesInRange(units[actingId], 6) = {}

\* C34 (pathfinder): whenever the action loop asks for a step, findMoveStep
\* answers nothing exactly when no living enemy exists or no tile next to a
\* living enemy that the unit may enter is reached from its tile through
\* tiles it may enter; otherwise the answer is a 4-neighbour of the unit's
\* tile that the unit may enter, from which a goal is reached in one step
\* less than the shortest walk, and it is the first step of the goal that a
\* breadth-first search with neighbour order +x, -x, +y, -y visits first.
C34_Pathfinder ==
    asksForStep =>
        LET u == units[actingId]
            step == findMoveStep(u, tileIndex, units, input)
            length == shortest(u)
        IN  /\ step = NoPos <=>
                  \/ \A id \in DOMAIN units : units[id].alive => units[id].side = u.side
                  \/ length = 0
            /\ step # NoPos =>
                  /\ manhattan(step, u.position) = Tile
                  /\ mayEnter(u, step)
                  /\ canEnterTile(u, tileIndex, units, step, input)
                  /\ within(u, {step}, length - 1) \cap goals(u) # {}
            /\ step = firstStepFrom(u, goals(u), <<[pos |-> u.position, first |-> NoPos]>>,
                                    {u.position})

\* the unit looked at has two first steps of shortest walks before it, and
\* findMoveStep has answered with one of them
C34_Witness ==
    /\ asksForStep
    /\ LET u == units[actingId]
           step == findMoveStep(u, tileIndex, units, input)
           length == shortest(u)
       IN  /\ step # NoPos
           /\ length > 1
           /\ \E i \in 1 .. 4 :
                 /\ around(u.position)[i] # step
                 /\ mayEnter(u, around(u.position)[i])
                 /\ within(u, {around(u.position)[i]}, length - 1) \cap goals(u) # {}

\* the generator state after n calls of next()
RECURSIVE advanced(_, _)
advanced(state, n) == IF n = 0 THEN state ELSE advanced(rngStep(state), n - 1)

\* the number of draws the log accounts for: one for every melee attack and
\* one for every Arrow that removed a unit
drawsOwed ==
    Cardinality(typed(events, "MeleeAttackResolved"))
        + Cardinality({i \in typed(events, "UnitRemoved") : events[i].payload.cause = "arrow"})

\* C35 (RNG use): while a battle runs and when it has returned, the
\* generator is the one seeded by the input advanced once for every
\* MeleeAttackResolved event and once for every Arrow impact that found a
\* living enemy (and removed it), and not once more.
C35_RngUse ==
    (running \/ pc = "returned") =>
        /\ rngDraws = drawsOwed
        /\ rng = advanced(createRng(input.seed), drawsOwed)

\* a battle has returned with a melee attack, an Arrow that removed a unit,
\* an Arrow that found nobody, a shot of a Mage and moves in its log
C35_Witness ==
    /\ pc = "returned"
    /\ typed(events, "MeleeAttackResolved") # {}
    /\ typed(events, "UnitMoved") # {}
    /\ \E i \in typed(events, "UnitRemoved") : events[i].payload.cause = "arrow"
    /\ \E i \in typed(events, "ProjectileImpacted") :
          events[i].payload.projectile = "Arrow" /\ events[i + 1].type # "UnitRemoved"
    /\ \E i \in typed(events, "ProjectileFired") : events[i].payload.projectile = "Fireball"

\* C36 (same-source projectile order): two ProjectileFired events of one
\* source have strictly increasing impact ticks in firing order; no two
\* projectiles that fall due in one tick, and no two ProjectileImpacted
\* events of one tick, share a source id, so the comparison of source ids
\* alone orders every tick's impacts.
C36_SameSourceOrder ==
    /\ \A i, j \in typed(events, "ProjectileFired") :
          (i < j /\ events[i].payload.sourceId = events[j].payload.sourceId) =>
              events[i].payload.impactTick < events[j].payload.impactTick
    /\ \A i, j \in DOMAIN projectiles :
          (i # j /\ projectiles[i].impactTick = projectiles[j].impactTick) =>
              projectiles[i].sourceId # projectiles[j].sourceId
    /\ \A i, j \in typed(events, "ProjectileImpacted") :
          (i # j /\ events[i].tick = events[j].tick) =>
              events[i].payload.sourceId # events[j].payload.sourceId

\* one unit has fired twice and both projectiles have had their impact, and
\* some tick has processed two projectiles
C36_Witness ==
    /\ \E i, j \in typed(events, "ProjectileFired") :
          /\ i < j
          /\ events[i].payload.sourceId = events[j].payload.sourceId
          /\ \E k \in typed(events, "ProjectileImpacted") :
                /\ events[k].payload.sourceId = events[j].payload.sourceId
                /\ events[k].payload.impactTick = events[j].payload.impactTick
    /\ \E i, j \in typed(events, "ProjectileImpacted") :
          i # j /\ events[i].tick = events[j].tick

\* C37 (input-order independence): an input is accepted in every order of
\* its units array or in none; when the worker has answered a message with a
\* result and then a message with the same input in another order of the
\* units array, the second answer is a result too, with the same event log
\* after the BattleInit event and the same result.
C37_OrderIndependence ==
    /\ (pc = "idle" /\ run = 0) =>
          \A us \in orderings(input.units) :
              (validateInput([input EXCEPT !.units = us]) = "") = (validateInput(input) = "")
    /\ (pc = "idle" /\ run = 2 /\ posted[1].type = "result") =>
          /\ posted[2].type = "result"
          /\ Tail(posted[2].output.events) = Tail(posted[1].output.events)
          /\ posted[2].output.result = posted[1].output.result

\* two answers for two orders of one units array, the second one with a
\* unit of a higher id before a unit of a lower id on the same tile, after a
\* battle with a draw of the generator and a removal
C37_Witness ==
    /\ pc = "idle" /\ run = 2
    /\ posted[1].type = "result" /\ posted[2].type = "result"
    /\ posted[1].output.input.units # posted[2].output.input.units
    /\ \E i, j \in DOMAIN input.units :
          /\ i < j
          /\ input.units[i].id > input.units[j].id
          /\ input.units[i].position = input.units[j].position
    /\ rngDraws >= 1
    /\ typed(events, "UnitRemoved") # {}

\* the last n entries of a sequence
lastOf(s, n) == IF Len(s) > n THEN SubSeq(s, Len(s) - n + 1, Len(s)) ELSE s

\* the commands of the data lines written to a response, in order
received(res) ==
    LET lines  == streams[res]
        others == {i \in DOMAIN lines : lines[i].kind # "data"}
        before(i) == Cardinality({c \in others : c < i})
    IN  [k \in 1..(Len(lines) - Cardinality(others)) |->
            lines[CHOOSE i \in k..(k + Cardinality(others)) :
                      i \notin others /\ i - before(i) = k].command]

\* C38 (command relay delivery): the backlog is the last BACKLOG_LIMIT
\* commands accepted, or all of them when there are fewer; the commands
\* written to a response are, in the order of acceptance and each once, the
\* last BACKLOG_LIMIT commands accepted before its GET and then every command
\* accepted from then on while it was in `clients`.
C38_RelayDelivery ==
    /\ Len(backlog) <= BACKLOG_LIMIT
    /\ backlog = lastOf(relayLog, BACKLOG_LIMIT)
    /\ \A res \in DOMAIN streams :
          LET until == IF res \in clients THEN Len(relayLog) ELSE leftAt[res]
              got   == received(res)
          IN  /\ got = lastOf(SubSeq(relayLog, 1, joinedAt[res]), BACKLOG_LIMIT)
                          \o SubSeq(relayLog, joinedAt[res] + 1, until)
              /\ \A i, j \in DOMAIN got : i # j => got[i].id # got[j].id
              /\ \A i \in 1..(Len(got) - 1) : got[i].id < got[i + 1].id

\* a response opened after more than BACKLOG_LIMIT commands has got
\* BACKLOG_LIMIT commands of the backlog and two commands after them, and a
\* response opened between those two has got the second one after its backlog
C38_Witness ==
    \E a, b \in clients :
        /\ joinedAt[a] > BACKLOG_LIMIT
        /\ Len(received(a)) = BACKLOG_LIMIT + 2
        /\ joinedAt[b] = joinedAt[a] + 1
        /\ Len(received(b)) = BACKLOG_LIMIT + 1

\* the units of the setup that stand where the unit u stands
setupTile(u) == tileUnitsOf(setupUnits, u.position)

\* C39 (setup produces valid input): in every state of the page,
\* validateInput accepts buildInput's value: ids are unique, every unit has
\* the size UNIT_SIZES gives for its type and stands inside the grid and the
\* deployment columns of its side, and the units of a tile are of one side,
\* at most maxUnitsPerTile, of total size not above maxSizePerTile.  A step
\* that makes the list longer appends one unit that canPlaceUnit accepts,
\* with the next id; a step in which the agent gets a rejection, and a step
\* outside setup mode, leaves the list as it is, and what the agent gets
\* outside setup mode is a rejection.
C39_SetupValid ==
    /\ [](/\ validateInput(buildInput(setupUnits)) = ""
          /\ \A i, j \in DOMAIN setupUnits : i # j => setupUnits[i].id # setupUnits[j].id
          /\ \A i \in DOMAIN setupUnits :
                LET u == setupUnits[i]
                IN  /\ u.size = unitSize(u.type)
                    /\ u.position.x >= 0 /\ u.position.x < GRID_WIDTH * Tile
                    /\ u.position.y >= 0 /\ u.position.y < GRID_HEIGHT * Tile
                    /\ u.side \in DOMAIN DEPLOYMENT_COLUMNS
                    /\ u.position.x >= DEPLOYMENT_COLUMNS[u.side].start * Tile
                    /\ u.position.x <= DEPLOYMENT_COLUMNS[u.side].end * Tile
                    /\ \A k \in DOMAIN setupTile(u) : setupTile(u)[k].side = u.side
                    /\ Len(setupTile(u)) <= TILE_LIMITS.maxUnitsPerTile
                    /\ ~exceeds(SumSizes(setupTile(u)), TILE_LIMITS.maxSizePerTile))
    /\ [][ /\ (Len(setupUnits') > Len(setupUnits) =>
                 LET u == setupUnits'[Len(setupUnits')]
                 IN  /\ setupUnits' = Append(setupUnits, u)
                     /\ canPlaceUnit(setupUnits, u.position, u.side, u.size) = ""
                     /\ u.id = nextUnitId
                     /\ nextUnitId' = nextUnitId + 1
                     /\ mode = "setup")
           /\ (agentResult' # agentResult /\ ~agentResult'.ok) =>
                 (setupUnits' = setupUnits /\ nextUnitId' = nextUnitId)
           /\ mode # "setup" =>
                 /\ setupUnits' = setupUnits
                 /\ (agentResult' # agentResult =>
                       (~agentResult'.ok /\ agentResult'.reason = "Not in setup mode."))
          ]_vars

\* in setup mode, after a removal, the agent's placement on a tile of three
\* units has been rejected for the size cap
C39_Witness ==
    /\ mode = "setup"
    /\ agentResult.reason = "Tile size limit exceeded."
    /\ \E i \in DOMAIN setupUnits : Len(setupTile(setupUnits[i])) = 3
    /\ nextUnitId > Len(setupUnits) + 1

\* how often the id stands in the list of the i-th entry of the tile index
listed(id, i) == Cardinality({k \in DOMAIN tileIndex[i].ids : tileIndex[i].ids[k] = id})

\* C40 (index consistency): while a battle runs and when it has returned,
\* the tile index has one entry per key and holds ids of the unit table
\* only; a living unit's id stands once in the list of its position's key
\* and in no other list, and a removed unit's id stands in no list.
C40_IndexConsistency ==
    (running \/ pc = "returned") =>
        /\ \A i, j \in DOMAIN tileIndex : i # j => tileIndex[i].key # tileIndex[j].key
        /\ \A i \in DOMAIN tileIndex : Range(tileIndex[i].ids) \subseteq DOMAIN units
        /\ \A id \in DOMAIN units :
              \A i \in DOMAIN tileIndex :
                  listed(id, i) = IF units[id].alive /\ tileIndex[i].key = tileKey(units[id].position)
                                    THEN 1 ELSE 0
        /\ \A id \in DOMAIN units :
              units[id].alive => tileHas(tileIndex, tileKey(units[id].position))

\* a battle runs in which a unit has been removed and a unit stands on the
\* tile it moved to together with another living unit
C40_Witness ==
    /\ running
    /\ \E i \in typed(events, "UnitMoved") :
          LET mover == units[events[i].payload.unitId]
          IN  /\ mover.alive
              /\ mover.position = events[i].payload.to
              /\ \E other \in DOMAIN units :
                    /\ other # mover.id
                    /\ units[other].alive
                    /\ units[other].position = mover.position
    /\ typed(events, "UnitRemoved") # {}

====
